---- MODULE Spec2Model ----
(***************************************************************************)
(* Payroll-System-Backend: the Employee and Payroll tables behind the      *)
(* REST handlers of payroll.controller and employee.controller.  Every     *)
(* handler is a sequence of database operations separated by `await`; one  *)
(* action of this module is one database operation together with the       *)
(* synchronous code of the handler that follows it, so handlers of         *)
(* different requests interleave exactly at their awaits.                   *)
(***************************************************************************)
EXTENDS Integers, Sequences, FiniteSets, TLC

\* employee, payroll: the rows of the two tables; nextId: the next generated
\* payroll id; now: the clock; req: what each request slot is doing;
\* repeat: the slots whose request repeats the one answered just before it;
\* teacher, officer, staff: the rows of the three role extension tables;
\* settings: the rows of the Settings table
VARIABLES employee, payroll, nextId, now, req, repeat,
          teacher, officer, staff, settings

vars == <<employee, payroll, nextId, now, req, repeat,
          teacher, officer, staff, settings>>

(***************************************************************************)
(* Bounds of the model.                                                    *)
(***************************************************************************)
\* payroll ids handed out by the store: 1..MaxPayrollId
MaxPayrollId == 2
\* the clock read by `new Date()` runs over 1..MaxTime
MaxTime == 2

\* request slots: each runs one handler at a time
Reqs == {"r1", "r2"}
\* the single slot of the sequential specifications
SeqReqs == {"r1"}
\* the employee of the specification that runs every handler
ConcEmpIds == {"e1"}
\* employee identifiers known to the clients
EmpIds == {"e1", "e2"}

PayrollIds == 1..MaxPayrollId

\* paidAt of a record that was never paid (a NULL column)
NULL == 0

(***************************************************************************)
(* JSON values of a request body: undefined, a number, or a string (a      *)
(* sequence of one-character strings).                                     *)
(***************************************************************************)
Undef == [k |-> "undef", n |-> 0, s |-> << >>]
Num(n) == [k |-> "num", n |-> n, s |-> << >>]
Str(s) == [k |-> "str", n |-> 0, s |-> s]

\* JavaScript truthiness, as used by `!month || !year`
Truthy(v) ==
  CASE v.k = "undef" -> FALSE
    [] v.k = "num" -> v.n # 0
    [] v.k = "str" -> v.s # << >>

Digits == {"0", "1", "2", "3", "4", "5", "6", "7", "8", "9"}

DigitVal(c) ==
  CASE c = "0" -> 0 [] c = "1" -> 1 [] c = "2" -> 2 [] c = "3" -> 3
    [] c = "4" -> 4 [] c = "5" -> 5 [] c = "6" -> 6 [] c = "7" -> 7
    [] c = "8" -> 8 [] c = "9" -> 9

\* the value of the longest prefix of digits of s, acc being the value so far
RECURSIVE DigitPrefix(_, _)
DigitPrefix(s, acc) ==
  IF s = << >> \/ Head(s) \notin Digits
    THEN acc
    ELSE DigitPrefix(Tail(s), acc * 10 + DigitVal(Head(s)))

NaN == [nan |-> TRUE, n |-> 0]
Int32(n) == [nan |-> FALSE, n |-> n]

\* parseInt(v): a number is converted through its decimal text, a string is
\* read up to its first non-digit; no leading digit gives NaN
parseInt(v) ==
  CASE v.k = "num" -> Int32(v.n)
    [] v.k = "str" ->
         IF v.s = << >> \/ Head(v.s) \notin Digits
           THEN NaN
           ELSE Int32(DigitPrefix(v.s, 0))
    [] v.k = "undef" -> NaN

(***************************************************************************)
(* Rows.                                                                   *)
(***************************************************************************)
\* the compensation columns of an Employee row, copied into a Payroll row
Salary(b, hr, md, tr, ed, sp, tx, pf, ins, ln, ot) ==
  [basicSalary |-> b, houseRent |-> hr, medical |-> md, transport |-> tr,
   education |-> ed, special |-> sp, tax |-> tx, providentFund |-> pf,
   insurance |-> ins, loan |-> ln, other |-> ot]

SalaryFields == {"basicSalary", "houseRent", "medical", "transport", "education",
                 "special", "tax", "providentFund", "insurance", "loan", "other"}

\* the first seeded teacher: net 93000
SeedProfessor == Salary(80000, 20000, 5000, 3000, 2000, 5000, 12000, 8000, 2000, 0, 0)
\* the first seeded staff member
SeedStaff == Salary(32000, 8000, 2000, 1200, 800, 1500, 4500, 3200, 1000, 0, 0)
\* deductions above gross: the net salary is negative
Indebted == Salary(1000, 0, 0, 0, 0, 0, 100, 0, 0, 5000, 0)


\* an optional field of a request body: {} when undefined, {x} when given
None == {}
Some(x) == {x}
Val(o) == CHOOSE x \in o : TRUE

\* `employeeIds` / `payrollIds` of a body: absent, or an array of identifiers
NoIds == [given |-> FALSE, set |-> {}]
Ids(S) == [given |-> TRUE, set |-> S]

\* the body of an employee create / update request
NoBody ==
  [employeeId |-> None, status |-> None, basicSalary |-> None,
   houseRent |-> None, medical |-> None, transport |-> None,
   education |-> None, special |-> None, tax |-> None,
   providentFund |-> None, insurance |-> None, loan |-> None, other |-> None,
   employeeType |-> None, designation |-> None, faculty |-> None,
   department |-> None, office |-> None, section |-> None, shift |-> None,
   name |-> None, email |-> None, phone |-> None]

\* the enums of the schema
EmployeeTypes == {"TEACHER", "OFFICER", "STAFF"}
PayrollStatuses == {"PAID", "PENDING"}
ShiftTypes == {"MORNING", "EVENING", "NIGHT"}

\* messages of the per-employee errors of processPayroll
AlreadyProcessed == "Payroll already processed for this period"
ErrUnique == "Unique constraint failed on the fields: (employeeId,month,year)"
ErrForeignKey == "Foreign key constraint failed on the field: Payroll_employeeId_fkey"
ErrValidation == "Invalid value provided. Expected Int, provided NaN"

\* the query of a listing request: month, year, page and limit are texts
\* that the handler parses; status, type and employeeId are compared as they
\* are ({} when the parameter is absent)
NoQuery ==
  [month |-> Undef, year |-> Undef, status |-> None, employeeId |-> None,
   type |-> None, page |-> Undef, limit |-> Undef, search |-> None]

\* the `pagination` of a response that has none
NoData == [total |-> 0, page |-> NaN, limit |-> NaN, totalPages |-> NaN]

\* the `yearlyTotal` of a response that has none
NoTotal == [totalBasicSalary |-> 0, totalGrossSalary |-> 0, totalNetSalary |-> 0]

\* the `counts` and `totals` of a payroll summary and the employee counts of
\* the dashboard, before their queries have answered
NoCounts == [total |-> 0, paid |-> 0, pending |-> 0]
NoSums ==
  [basicSalary |-> 0, totalAllowances |-> 0, totalDeductions |-> 0,
   grossSalary |-> 0, netSalary |-> 0]
NoStats ==
  [totalEmployees |-> 0, activeEmployees |-> 0, teacherCount |-> 0,
   officerCount |-> 0, staffCount |-> 0]

\* a request slot with no request in it
IdleReq ==
  [op |-> "none", pc |-> "idle", month |-> Undef, year |-> Undef,
   ids |-> NoIds, pid |-> 0, eid |-> "", body |-> NoBody,
   employees |-> {}, todo |-> {}, cur |-> {},
   processed |-> {}, errors |-> {}, status |-> 0, count |-> 0,
   kind |-> "", key |-> "", value |-> Undef, query |-> NoQuery,
   rows |-> << >>, data |-> NoData, loop |-> 0, yearlyTotal |-> NoTotal,
   queries |-> {}, counts |-> NoCounts, totals |-> NoSums, stats |-> NoStats]

Init ==
  /\ employee = {}
  /\ payroll = {}
  /\ nextId = 1
  /\ now = 1
  /\ req = [r \in Reqs |-> IdleReq]
  /\ repeat = {}
  /\ teacher = {}
  /\ officer = {}
  /\ staff = {}
  /\ settings = {}

(***************************************************************************)
(* The store: the constraints of the Payroll table.                        *)
(***************************************************************************)
\* Payroll_employeeId_month_year_key: the triple of `data` is already stored
UniqueViolationNever(table, data) == FALSE

UniqueViolation(table, data) ==
  \E p \in table : /\ p.employeeId = data.employeeId
                   /\ p.month = data.month
                   /\ p.year = data.year

\* a Payroll table that takes the identifier of any employee
ForeignKeyUnchecked(emps, data) == FALSE

\* Payroll_employeeId_fkey: the employee of `data` is not stored
ForeignKeyViolation(emps, data) ==
  \A e \in emps : e.id # data.employeeId

\* payroll.findUnique({employeeId_month_year}): the set of rows found (0 or 1)
FindNothing(table, eid, m, y) == {}

FindByTriple(table, eid, m, y) ==
  {p \in table : p.employeeId = eid /\ p.month = m /\ p.year = y}

\* payroll.findUnique({id})
FindById(table, id) == {p \in table : p.id = id}

(***************************************************************************)
(* processPayroll                                                          *)
(***************************************************************************)
totalAllowances(e) ==
  e.houseRent + e.medical + e.transport + e.education + e.special

totalDeductions(e) ==
  e.tax + e.providentFund + e.insurance + e.loan + e.other

grossSalaryNoSpecial(e) ==
  e.basicSalary + e.houseRent + e.medical + e.transport + e.education

grossSalary(e) == e.basicSalary + totalAllowances(e)

netSalary(e) == grossSalary(e) - totalDeductions(e)

\* the `data` of payroll.create for employee row e
PayrollData(e, m, y) ==
  [employeeId |-> e.id, month |-> m, year |-> y,
   basicSalary |-> e.basicSalary, houseRent |-> e.houseRent,
   medical |-> e.medical, transport |-> e.transport,
   education |-> e.education, special |-> e.special, tax |-> e.tax,
   providentFund |-> e.providentFund, insurance |-> e.insurance,
   loan |-> e.loan, other |-> e.other,
   grossSalary |-> grossSalary(e), netSalary |-> netSalary(e),
   status |-> "PENDING"]

\* a row that is stamped at its creation
PayrollRowStamped(data, id) ==
  [id |-> id, paidAt |-> 1] @@ data

\* the stored row: the data, the generated id, and the NULL paidAt
PayrollRow(data, id) ==
  [id |-> id, paidAt |-> NULL] @@ data

\* the employees selected by `where`
SelectEveryone(emps, ids) == emps

Selected(emps, ids) ==
  {e \in emps : /\ e.status = "ACTIVE"
                /\ (ids.given /\ ids.set # {}) => e.id \in ids.set}

\* the loop goes on to the next employee, or the handler answers 201
AfterEmployeeStop(q, e) ==
  [q EXCEPT !.todo = {}, !.cur = {}, !.pc = "done", !.status = 201]

AfterEmployee(q, e) ==
  LET rest == q.todo \ {e}
  IN [q EXCEPT !.todo = rest, !.cur = {},
               !.pc = IF rest = {} THEN "done" ELSE "check",
               !.status = IF rest = {} THEN 201 ELSE 0]

\* the handler validates the request and fetches the employees
ProcessPayrollBegin(r, month, year, ids) ==
  LET q == [IdleReq EXCEPT !.op = "processPayroll", !.month = month,
                           !.year = year, !.ids = ids]
      emps == Selected(employee, ids)
  IN req' = [req EXCEPT ![r] =
       IF ~Truthy(month) \/ ~Truthy(year)
         THEN [q EXCEPT !.pc = "done", !.status = 400]
       ELSE IF emps = {}
         THEN [q EXCEPT !.pc = "done", !.status = 404]
       ELSE [q EXCEPT !.pc = "check", !.employees = emps, !.todo = emps]]

\* a request arrives
ProcessPayrollStart(r, month, year, ids) ==
  /\ req[r].pc = "idle"
  /\ ProcessPayrollBegin(r, month, year, ids)
  /\ UNCHANGED <<employee, payroll, nextId, now, repeat, teacher, officer, staff, settings>>

\* the caller that just got its answer sends the same request again
ProcessPayrollAgain(r) ==
  /\ req[r].op = "processPayroll"
  /\ req[r].pc = "done"
  /\ r \notin repeat
  /\ ProcessPayrollBegin(r, req[r].month, req[r].year, req[r].ids)
  /\ repeat' = repeat \cup {r}
  /\ UNCHANGED <<employee, payroll, nextId, now, teacher, officer, staff, settings>>

\* one iteration, up to the existence check
ProcessPayrollCheck(r) ==
  /\ req[r].op = "processPayroll"
  /\ req[r].pc = "check"
  /\ \E e \in req[r].todo :
       LET q == req[r]
           m == parseInt(q.month)
           y == parseInt(q.year)
       IN req' = [req EXCEPT ![r] =
            IF m.nan \/ y.nan
              THEN AfterEmployee(
                     [q EXCEPT !.errors = @ \cup {[employeeId |-> e.id, message |-> ErrValidation]}], e)
            ELSE IF FindByTriple(payroll, e.id, m.n, y.n) # {}
              THEN AfterEmployee(
                     [q EXCEPT !.errors = @ \cup {[employeeId |-> e.id, message |-> AlreadyProcessed]}], e)
            ELSE [q EXCEPT !.pc = "create", !.cur = {e}]]
  /\ UNCHANGED <<employee, payroll, nextId, now, repeat, teacher, officer, staff, settings>>

\* the rest of the iteration: payroll.create and what follows it
ProcessPayrollCreate(r) ==
  /\ req[r].op = "processPayroll"
  /\ req[r].pc = "create"
  /\ nextId <= MaxPayrollId
  /\ LET q == req[r]
         e == Val(q.cur)
         data == PayrollData(e, parseInt(q.month).n, parseInt(q.year).n)
         row == PayrollRow(data, nextId)
         fail(msg) == AfterEmployee(
                        [q EXCEPT !.errors = @ \cup {[employeeId |-> e.id, message |-> msg]}], e)
     IN IF ForeignKeyViolation(employee, data)
          THEN /\ req' = [req EXCEPT ![r] = fail(ErrForeignKey)]
               /\ UNCHANGED <<payroll, nextId>>
        ELSE IF UniqueViolation(payroll, data)
          THEN /\ req' = [req EXCEPT ![r] = fail(ErrUnique)]
               /\ UNCHANGED <<payroll, nextId>>
        ELSE /\ payroll' = payroll \cup {row}
             /\ nextId' = nextId + 1
             /\ req' = [req EXCEPT ![r] =
                  AfterEmployee([q EXCEPT !.processed = @ \cup {row}], e)]
  /\ UNCHANGED <<employee, now, repeat, teacher, officer, staff, settings>>

(***************************************************************************)
(* markPayrollAsPaid, bulkMarkAsPaid, deletePayroll                        *)
(***************************************************************************)
\* payroll.update({where: {id}, data: {status: 'PAID', paidAt: new Date()}})
MarkPaidNoStamp(table, id, t) ==
  {IF p.id = id THEN [p EXCEPT !.status = "PAID"] ELSE p : p \in table}

MarkPaid(table, id, t) ==
  {IF p.id = id THEN [p EXCEPT !.status = "PAID", !.paidAt = t] ELSE p : p \in table}

\* the rows payroll.updateMany's `where` matches
BulkMatchAnyStatus(table, ids) == {p \in table : p.id \in ids}

BulkMatch(table, ids) ==
  {p \in table : p.id \in ids /\ p.status = "PENDING"}

\* payroll.updateMany({where, data: {status: 'PAID', paidAt: new Date()}})
BulkMarkPaid(table, ids, t) ==
  LET hit == BulkMatch(table, ids)
  IN {IF p \in hit THEN [p EXCEPT !.status = "PAID", !.paidAt = t] ELSE p : p \in table}

\* the handler reads the record and decides
MarkPayrollAsPaidFind(r, id) ==
  /\ req[r].pc = "idle"
  /\ LET q == [IdleReq EXCEPT !.op = "markPayrollAsPaid", !.pid = id]
         found == FindById(payroll, id)
     IN req' = [req EXCEPT ![r] =
          IF found = {}
            THEN [q EXCEPT !.pc = "done", !.status = 404]
          ELSE IF Val(found).status = "PAID"
            THEN [q EXCEPT !.pc = "done", !.status = 400]
          ELSE [q EXCEPT !.pc = "update"]]
  /\ UNCHANGED <<employee, payroll, nextId, now, repeat, teacher, officer, staff, settings>>

\* the handler writes PAID and the current time
MarkPayrollAsPaidUpdate(r) ==
  /\ req[r].op = "markPayrollAsPaid"
  /\ req[r].pc = "update"
  /\ IF FindById(payroll, req[r].pid) = {}
       THEN /\ req' = [req EXCEPT ![r].pc = "done", ![r].status = 500]
            /\ UNCHANGED payroll
       ELSE /\ payroll' = MarkPaid(payroll, req[r].pid, now)
            /\ req' = [req EXCEPT ![r].pc = "done", ![r].status = 200]
  /\ UNCHANGED <<employee, nextId, now, repeat, teacher, officer, staff, settings>>

\* a handler that takes an empty list for a list of identifiers
BulkMarkAsPaidUnchecked(r, payrollIds) ==
  /\ req[r].pc = "idle"
  /\ LET q == [IdleReq EXCEPT !.op = "bulkMarkAsPaid", !.ids = payrollIds]
     IN IF ~payrollIds.given
          THEN /\ req' = [req EXCEPT ![r] = [q EXCEPT !.pc = "done", !.status = 400]]
               /\ UNCHANGED payroll
          ELSE /\ payroll' = BulkMarkPaid(payroll, payrollIds.set, now)
               /\ req' = [req EXCEPT ![r] =
                    [q EXCEPT !.pc = "done", !.status = 200,
                              !.count = Cardinality(BulkMatch(payroll, payrollIds.set))]]
  /\ UNCHANGED <<employee, nextId, now, repeat, teacher, officer, staff, settings>>

\* the whole handler: one updateMany
BulkMarkAsPaid(r, payrollIds) ==
  /\ req[r].pc = "idle"
  /\ LET q == [IdleReq EXCEPT !.op = "bulkMarkAsPaid", !.ids = payrollIds]
     IN IF ~payrollIds.given \/ payrollIds.set = {}
          THEN /\ req' = [req EXCEPT ![r] = [q EXCEPT !.pc = "done", !.status = 400]]
               /\ UNCHANGED payroll
          ELSE /\ payroll' = BulkMarkPaid(payroll, payrollIds.set, now)
               /\ req' = [req EXCEPT ![r] =
                    [q EXCEPT !.pc = "done", !.status = 200,
                              !.count = Cardinality(BulkMatch(payroll, payrollIds.set))]]
  /\ UNCHANGED <<employee, nextId, now, repeat, teacher, officer, staff, settings>>

DeletePayrollFind(r, id) ==
  /\ req[r].pc = "idle"
  /\ LET q == [IdleReq EXCEPT !.op = "deletePayroll", !.pid = id]
     IN req' = [req EXCEPT ![r] =
          IF FindById(payroll, id) = {}
            THEN [q EXCEPT !.pc = "done", !.status = 404]
            ELSE [q EXCEPT !.pc = "delete"]]
  /\ UNCHANGED <<employee, payroll, nextId, now, repeat, teacher, officer, staff, settings>>

\* a delete that takes the other records of the period along
DeletePayrollDeleteAll(r) ==
  /\ req[r].op = "deletePayroll"
  /\ req[r].pc = "delete"
  /\ IF FindById(payroll, req[r].pid) = {}
       THEN /\ req' = [req EXCEPT ![r].pc = "done", ![r].status = 500]
            /\ UNCHANGED payroll
       ELSE /\ payroll' = {p \in payroll :
                             \A x \in FindById(payroll, req[r].pid) :
                               p.month # x.month \/ p.year # x.year}
            /\ req' = [req EXCEPT ![r].pc = "done", ![r].status = 200]
  /\ UNCHANGED <<employee, nextId, now, repeat, teacher, officer, staff, settings>>

DeletePayrollDelete(r) ==
  /\ req[r].op = "deletePayroll"
  /\ req[r].pc = "delete"
  /\ IF FindById(payroll, req[r].pid) = {}
       THEN /\ req' = [req EXCEPT ![r].pc = "done", ![r].status = 500]
            /\ UNCHANGED payroll
       ELSE /\ payroll' = payroll \ FindById(payroll, req[r].pid)
            /\ req' = [req EXCEPT ![r].pc = "done", ![r].status = 200]
  /\ UNCHANGED <<employee, nextId, now, repeat, teacher, officer, staff, settings>>

(***************************************************************************)
(* createEmployee, updateEmployee, deleteEmployee                          *)
(***************************************************************************)
\* `x || 0` of an optional amount
OrZero(o) == IF o = None THEN 0 ELSE Val(o)

\* the row employee.create stores for `body` under id
NewEmployee(id, body) ==
  [id |-> id,
   name |-> Val(body.name), email |-> Val(body.email), phone |-> Val(body.phone),
   employeeType |-> Val(body.employeeType),
   designation |-> Val(body.designation),
   status |-> IF body.status = None THEN "ACTIVE" ELSE Val(body.status),
   basicSalary |-> Val(body.basicSalary),
   houseRent |-> OrZero(body.houseRent), medical |-> OrZero(body.medical),
   transport |-> OrZero(body.transport), education |-> OrZero(body.education),
   special |-> OrZero(body.special), tax |-> OrZero(body.tax),
   providentFund |-> OrZero(body.providentFund),
   insurance |-> OrZero(body.insurance), loan |-> OrZero(body.loan),
   other |-> OrZero(body.other)]

\* `...(x !== undefined && {f: x})`
IfDefined(o, old) == IF o = None THEN old ELSE Val(o)

\* `...(x && {f: x})`: a falsy value is not written either
IfTruthy(o, old) == IF o = None \/ o = {0} THEN old ELSE Val(o)

\* the same for a text: the empty text is falsy
IfTruthyText(o, old) == IF o = None \/ o = {""} THEN old ELSE Val(o)

\* the same for a name, an email or a phone, texts kept as the sequences of
\* their characters
IfTruthyChars(o, old) == IF o = None \/ o = {<< >>} THEN old ELSE Val(o)

\* an index that lets every email and phone in
ContactFree(table, row) == FALSE

\* Employee_phone_key, Employee_email_key: another row has the phone or the
\* email of `row`
ContactTaken(table, row) ==
  \E x \in table : x.id # row.id /\ (x.email = row.email \/ x.phone = row.phone)

\* the row employee.update leaves for `body`
UpdatedEmployee(e, body) ==
  [id |-> e.id,
   name |-> IfTruthyChars(body.name, e.name),
   email |-> IfTruthyChars(body.email, e.email),
   phone |-> IfTruthyChars(body.phone, e.phone),
   employeeType |-> e.employeeType,
   designation |-> IfTruthyText(body.designation, e.designation),
   status |-> IF body.status = None THEN e.status ELSE Val(body.status),
   basicSalary |-> IfTruthy(body.basicSalary, e.basicSalary),
   houseRent |-> IfDefined(body.houseRent, e.houseRent),
   medical |-> IfDefined(body.medical, e.medical),
   transport |-> IfDefined(body.transport, e.transport),
   education |-> IfDefined(body.education, e.education),
   special |-> IfDefined(body.special, e.special),
   tax |-> IfDefined(body.tax, e.tax),
   providentFund |-> IfDefined(body.providentFund, e.providentFund),
   insurance |-> IfDefined(body.insurance, e.insurance),
   loan |-> IfDefined(body.loan, e.loan),
   other |-> IfDefined(body.other, e.other)]

EmployeeById(emps, id) == {e \in emps : e.id = id}

\* the rows of the nested `teacher: {create}`, `officer: {create}` and
\* `staff: {create}`
TeacherRow(id, body) ==
  [employeeId |-> id, faculty |-> Val(body.faculty),
   department |-> Val(body.department)]

OfficerRow(id, body) == [employeeId |-> id, office |-> Val(body.office)]

StaffRow(id, body) ==
  [employeeId |-> id, section |-> Val(body.section), shift |-> Val(body.shift)]

\* the store refuses the nested create: a required column is missing or an
\* enum does not have the value
CreateRejected(body) ==
  \/ body.name = None \/ body.email = None \/ body.phone = None
  \/ body.basicSalary = None
  \/ body.designation = None
  \/ body.employeeType = None
  \/ Val(body.employeeType) \notin EmployeeTypes
  \/ /\ Val(body.employeeType) = "TEACHER"
     /\ (body.faculty = None \/ body.department = None)
  \/ /\ Val(body.employeeType) = "OFFICER"
     /\ body.office = None
  \/ /\ Val(body.employeeType) = "STAFF"
     /\ \/ body.section = None
        \/ body.shift = None
        \/ Val(body.shift) \notin ShiftTypes

\* the whole handler: one nested create of the employee and the extension
\* of its type; a taken id or a refused column makes the store throw and
\* nothing is stored
CreateEmployee(r, body) ==
  /\ req[r].pc = "idle"
  /\ \E id \in EmpIds :
       /\ IF body.employeeId = None
            THEN EmployeeById(employee, id) = {}
            ELSE id = Val(body.employeeId)
       /\ LET q == [IdleReq EXCEPT !.op = "createEmployee", !.eid = id, !.body = body]
          IN IF \/ CreateRejected(body)
                \/ EmployeeById(employee, id) # {}
                \/ ContactTaken(employee, NewEmployee(id, body))
               THEN /\ req' = [req EXCEPT ![r] = [q EXCEPT !.pc = "done", !.status = 500]]
                    /\ UNCHANGED <<employee, teacher, officer, staff>>
               ELSE /\ employee' = employee \cup {NewEmployee(id, body)}
                    /\ teacher' = IF Val(body.employeeType) = "TEACHER"
                                    THEN teacher \cup {TeacherRow(id, body)}
                                    ELSE teacher
                    /\ officer' = IF Val(body.employeeType) = "OFFICER"
                                    THEN officer \cup {OfficerRow(id, body)}
                                    ELSE officer
                    /\ staff' = IF Val(body.employeeType) = "STAFF"
                                  THEN staff \cup {StaffRow(id, body)}
                                  ELSE staff
                    /\ req' = [req EXCEPT ![r] = [q EXCEPT !.pc = "done", !.status = 201]]
  /\ UNCHANGED <<payroll, nextId, now, repeat, settings>>

\* the rows of an extension table that belong to employee id
ExtensionOf(table, id) == {x \in table : x.employeeId = id}

\* the extension the handler will update: the one of existingEmployee's type,
\* when existingEmployee has it
ExistingKind(e) ==
  IF e.employeeType = "TEACHER" /\ ExtensionOf(teacher, e.id) # {} THEN "TEACHER"
  ELSE IF e.employeeType = "OFFICER" /\ ExtensionOf(officer, e.id) # {} THEN "OFFICER"
  ELSE IF e.employeeType = "STAFF" /\ ExtensionOf(staff, e.id) # {} THEN "STAFF"
  ELSE ""

UpdateEmployeeFind(r, id, body) ==
  /\ req[r].pc = "idle"
  /\ LET q == [IdleReq EXCEPT !.op = "updateEmployee", !.eid = id, !.body = body]
         found == EmployeeById(employee, id)
     IN req' = [req EXCEPT ![r] =
          IF found = {}
            THEN [q EXCEPT !.pc = "done", !.status = 404]
            ELSE [q EXCEPT !.pc = "update", !.kind = ExistingKind(Val(found))]]
  /\ UNCHANGED <<employee, payroll, nextId, now, repeat, teacher, officer, staff, settings>>

\* an update that also rewrites the employee's PENDING payrolls
UpdateEmployeeUpdateLive(r) ==
  /\ req[r].op = "updateEmployee"
  /\ req[r].pc = "update"
  /\ LET found == EmployeeById(employee, req[r].eid)
     IN IF \/ found = {}
           \/ ContactTaken(employee, UpdatedEmployee(Val(found), req[r].body))
          THEN /\ req' = [req EXCEPT ![r].pc = "done", ![r].status = 500]
               /\ UNCHANGED <<employee, payroll>>
          ELSE LET e == UpdatedEmployee(Val(found), req[r].body)
               IN /\ employee' = (employee \ found) \cup {e}
                  /\ payroll' =
                       {IF p.employeeId = e.id /\ p.status = "PENDING"
                          THEN PayrollRow(PayrollData(e, p.month, p.year), p.id)
                          ELSE p : p \in payroll}
                  /\ req' = [req EXCEPT ![r].pc = "refetch"]
  /\ UNCHANGED <<nextId, now, repeat, teacher, officer, staff, settings>>

UpdateEmployeeUpdate(r) ==
  /\ req[r].op = "updateEmployee"
  /\ req[r].pc = "update"
  /\ LET found == EmployeeById(employee, req[r].eid)
     IN IF \/ found = {}
           \/ ContactTaken(employee, UpdatedEmployee(Val(found), req[r].body))
          THEN /\ req' = [req EXCEPT ![r].pc = "done", ![r].status = 500]
               /\ UNCHANGED employee
          ELSE /\ employee' = (employee \ found)
                                \cup {UpdatedEmployee(Val(found), req[r].body)}
               /\ req' = [req EXCEPT ![r].pc = "refetch"]
  /\ UNCHANGED <<payroll, nextId, now, repeat, teacher, officer, staff, settings>>

\* teacher.update / officer.update / staff.update of the row of employee id
UpdatedTeacher(table, id, body) ==
  {IF x.employeeId = id
     THEN [x EXCEPT !.faculty = IfTruthyText(body.faculty, @),
                    !.department = IfTruthyText(body.department, @)]
     ELSE x : x \in table}

UpdatedOfficer(table, id, body) ==
  {IF x.employeeId = id
     THEN [x EXCEPT !.office = IfTruthyText(body.office, @)]
     ELSE x : x \in table}

UpdatedStaff(table, id, body) ==
  {IF x.employeeId = id
     THEN [x EXCEPT !.section = IfTruthyText(body.section, @),
                    !.shift = IfTruthyText(body.shift, @)]
     ELSE x : x \in table}

\* the store refuses the extension's update: the row is gone, or the shift
\* is not one of the enum
ExtensionUpdateRejected(kind, id, body) ==
  \/ kind = "TEACHER" /\ ExtensionOf(teacher, id) = {}
  \/ kind = "OFFICER" /\ ExtensionOf(officer, id) = {}
  \/ /\ kind = "STAFF"
     /\ \/ ExtensionOf(staff, id) = {}
        \/ IfTruthyText(body.shift, "MORNING") \notin ShiftTypes

\* the update of the role extension of existingEmployee, then the final
\* findUnique, which writes nothing
UpdateEmployeeRefetch(r) ==
  /\ req[r].op = "updateEmployee"
  /\ req[r].pc = "refetch"
  /\ LET q == req[r]
     IN IF ExtensionUpdateRejected(q.kind, q.eid, q.body)
          THEN /\ req' = [req EXCEPT ![r].pc = "done", ![r].status = 500]
               /\ UNCHANGED <<teacher, officer, staff>>
          ELSE /\ teacher' = IF q.kind = "TEACHER"
                               THEN UpdatedTeacher(teacher, q.eid, q.body)
                               ELSE teacher
               /\ officer' = IF q.kind = "OFFICER"
                               THEN UpdatedOfficer(officer, q.eid, q.body)
                               ELSE officer
               /\ staff' = IF q.kind = "STAFF"
                             THEN UpdatedStaff(staff, q.eid, q.body)
                             ELSE staff
               /\ req' = [req EXCEPT ![r].pc = "done", ![r].status = 200]
  /\ UNCHANGED <<employee, payroll, nextId, now, repeat, settings>>

DeleteEmployeeFind(r, id) ==
  /\ req[r].pc = "idle"
  /\ LET q == [IdleReq EXCEPT !.op = "deleteEmployee", !.eid = id]
     IN req' = [req EXCEPT ![r] =
          IF EmployeeById(employee, id) = {}
            THEN [q EXCEPT !.pc = "done", !.status = 404]
            ELSE [q EXCEPT !.pc = "delete"]]
  /\ UNCHANGED <<employee, payroll, nextId, now, repeat, teacher, officer, staff, settings>>

\* ON DELETE CASCADE of the four foreign keys on Employee(id): what is left
\* of a referencing table when employee id is deleted
OnDeleteKeep(table, id) == table

OnDeleteCascade(table, id) == {x \in table : x.employeeId # id}

\* employee.delete; the cascade removes the employee's Payroll rows and its
\* role extension
DeleteEmployeeDelete(r) ==
  /\ req[r].op = "deleteEmployee"
  /\ req[r].pc = "delete"
  /\ IF EmployeeById(employee, req[r].eid) = {}
       THEN /\ req' = [req EXCEPT ![r].pc = "done", ![r].status = 500]
            /\ UNCHANGED <<employee, payroll, teacher, officer, staff>>
       ELSE /\ employee' = employee \ EmployeeById(employee, req[r].eid)
            /\ payroll' = OnDeleteCascade(payroll, req[r].eid)
            /\ teacher' = OnDeleteCascade(teacher, req[r].eid)
            /\ officer' = OnDeleteCascade(officer, req[r].eid)
            /\ staff' = OnDeleteCascade(staff, req[r].eid)
            /\ req' = [req EXCEPT ![r].pc = "done", ![r].status = 200]
  /\ UNCHANGED <<nextId, now, repeat, settings>>

(***************************************************************************)
(* EmployeeService and PayrollService: the exported service objects.  A    *)
(* call occupies a slot like a request; status 200 stands for a returned   *)
(* value and 500 for a thrown error.                                       *)
(***************************************************************************)
\* the `data` of a service call: the columns, and the kinds of the nested
\* objects `data.teacher`, `data.officer`, `data.staff` that are present
\* (their fields are the ones of `body`)
ServiceData(body, nested) == [body |-> body, nested |-> nested]

\* the extension the call writes: the one of data.employeeType, when the
\* nested object of that kind is present
ServiceKind(data) ==
  IF data.body.employeeType # None /\ Val(data.body.employeeType) \in data.nested
    THEN Val(data.body.employeeType)
    ELSE ""

\* a required column of the nested create is missing
ExtensionRejected(kind, body) ==
  \/ kind = "TEACHER" /\ (body.faculty = None \/ body.department = None)
  \/ kind = "OFFICER" /\ body.office = None
  \/ /\ kind = "STAFF"
     /\ \/ body.section = None
        \/ body.shift = None
        \/ Val(body.shift) \notin ShiftTypes

\* the store refuses the create of EmployeeService.createEmployee: a
\* required column is missing, or `...employeeData` carries a nested object
\* that was not turned into `{create: ...}`
ServiceCreateRejected(data) ==
  \/ data.body.basicSalary = None
  \/ data.body.designation = None
  \/ data.body.employeeType = None
  \/ Val(data.body.employeeType) \notin EmployeeTypes
  \/ data.nested \ {Val(data.body.employeeType)} # {}
  \/ ExtensionRejected(ServiceKind(data), data.body)

\* EmployeeService.createEmployee(data): one nested create
ServiceCreateEmployee(r, data) ==
  /\ req[r].pc = "idle"
  /\ \E id \in EmpIds :
       /\ IF data.body.employeeId = None
            THEN EmployeeById(employee, id) = {}
            ELSE id = Val(data.body.employeeId)
       /\ LET q == [IdleReq EXCEPT !.op = "EmployeeService.createEmployee",
                                   !.eid = id, !.body = data.body]
              kind == ServiceKind(data)
          IN IF \/ ServiceCreateRejected(data)
                \/ EmployeeById(employee, id) # {}
                \/ ContactTaken(employee, NewEmployee(id, data.body))
               THEN /\ req' = [req EXCEPT ![r] = [q EXCEPT !.pc = "done", !.status = 500]]
                    /\ UNCHANGED <<employee, teacher, officer, staff>>
               ELSE /\ employee' = employee \cup {NewEmployee(id, data.body)}
                    /\ teacher' = IF kind = "TEACHER"
                                    THEN teacher \cup {TeacherRow(id, data.body)}
                                    ELSE teacher
                    /\ officer' = IF kind = "OFFICER"
                                    THEN officer \cup {OfficerRow(id, data.body)}
                                    ELSE officer
                    /\ staff' = IF kind = "STAFF"
                                  THEN staff \cup {StaffRow(id, data.body)}
                                  ELSE staff
                    /\ req' = [req EXCEPT ![r] = [q EXCEPT !.pc = "done", !.status = 200]]
  /\ UNCHANGED <<payroll, nextId, now, repeat, settings>>

\* the row `...employeeData` leaves: every column that is given is written,
\* employeeType is not among them
ServiceUpdatedEmployee(e, body) ==
  [id |-> e.id,
   name |-> IfDefined(body.name, e.name),
   email |-> IfDefined(body.email, e.email),
   phone |-> IfDefined(body.phone, e.phone),
   employeeType |-> e.employeeType,
   designation |-> IfDefined(body.designation, e.designation),
   status |-> IfDefined(body.status, e.status),
   basicSalary |-> IfDefined(body.basicSalary, e.basicSalary),
   houseRent |-> IfDefined(body.houseRent, e.houseRent),
   medical |-> IfDefined(body.medical, e.medical),
   transport |-> IfDefined(body.transport, e.transport),
   education |-> IfDefined(body.education, e.education),
   special |-> IfDefined(body.special, e.special),
   tax |-> IfDefined(body.tax, e.tax),
   providentFund |-> IfDefined(body.providentFund, e.providentFund),
   insurance |-> IfDefined(body.insurance, e.insurance),
   loan |-> IfDefined(body.loan, e.loan),
   other |-> IfDefined(body.other, e.other)]

\* `upsert: {create, update}` of the extension row of employee id
UpsertTeacher(table, id, body) ==
  IF ExtensionOf(table, id) = {}
    THEN table \cup {TeacherRow(id, body)}
    ELSE {IF x.employeeId = id
            THEN [x EXCEPT !.faculty = IfDefined(body.faculty, @),
                           !.department = IfDefined(body.department, @)]
            ELSE x : x \in table}

UpsertOfficer(table, id, body) ==
  IF ExtensionOf(table, id) = {}
    THEN table \cup {OfficerRow(id, body)}
    ELSE {IF x.employeeId = id
            THEN [x EXCEPT !.office = IfDefined(body.office, @)]
            ELSE x : x \in table}

UpsertStaff(table, id, body) ==
  IF ExtensionOf(table, id) = {}
    THEN table \cup {StaffRow(id, body)}
    ELSE {IF x.employeeId = id
            THEN [x EXCEPT !.section = IfDefined(body.section, @),
                           !.shift = IfDefined(body.shift, @)]
            ELSE x : x \in table}

\* the store refuses the update: no such employee, or an extension to
\* create without its columns (the nested objects of the other kinds are
\* taken out of `data` and not used)
ServiceUpdateRejected(id, data) ==
  \/ EmployeeById(employee, id) = {}
  \/ \E e \in EmployeeById(employee, id) :
       ContactTaken(employee, ServiceUpdatedEmployee(e, data.body))
  \/ /\ ServiceKind(data) = "TEACHER" /\ ExtensionOf(teacher, id) = {}
     /\ ExtensionRejected("TEACHER", data.body)
  \/ /\ ServiceKind(data) = "OFFICER" /\ ExtensionOf(officer, id) = {}
     /\ ExtensionRejected("OFFICER", data.body)
  \/ /\ ServiceKind(data) = "STAFF" /\ ExtensionOf(staff, id) = {}
     /\ ExtensionRejected("STAFF", data.body)
  \/ /\ ServiceKind(data) = "STAFF"
     /\ data.body.shift # None /\ Val(data.body.shift) \notin ShiftTypes

\* EmployeeService.updateEmployee(id, data): one nested update
ServiceUpdateEmployee(r, id, data) ==
  /\ req[r].pc = "idle"
  /\ LET q == [IdleReq EXCEPT !.op = "EmployeeService.updateEmployee",
                              !.eid = id, !.body = data.body]
         kind == ServiceKind(data)
     IN IF ServiceUpdateRejected(id, data)
          THEN /\ req' = [req EXCEPT ![r] = [q EXCEPT !.pc = "done", !.status = 500]]
               /\ UNCHANGED <<employee, teacher, officer, staff>>
          ELSE /\ employee' = (employee \ EmployeeById(employee, id))
                   \cup {ServiceUpdatedEmployee(Val(EmployeeById(employee, id)), data.body)}
               /\ teacher' = IF kind = "TEACHER"
                               THEN UpsertTeacher(teacher, id, data.body)
                               ELSE teacher
               /\ officer' = IF kind = "OFFICER"
                               THEN UpsertOfficer(officer, id, data.body)
                               ELSE officer
               /\ staff' = IF kind = "STAFF"
                             THEN UpsertStaff(staff, id, data.body)
                             ELSE staff
               /\ req' = [req EXCEPT ![r] = [q EXCEPT !.pc = "done", !.status = 200]]
  /\ UNCHANGED <<payroll, nextId, now, repeat, settings>>

\* the errors PayrollService.processPayroll throws
ErrEmployeeNotFound == "Employee not found"
ErrNoAllowances == "Cannot convert undefined or null to object"
ErrUnknownArgument == "Unknown argument employeeName"

\* calculateGrossSalary reads employee.allowances, a column the Employee
\* table does not have: Object.values(undefined) throws; and the `data` of
\* the create that follows names columns the Payroll table does not have
ProcessPayrollThrows(e) ==
  IF "allowances" \notin DOMAIN e THEN ErrNoAllowances ELSE ErrUnknownArgument

\* PayrollService.processPayroll(data), up to the findFirst of the record
ServiceProcessPayrollFind(r, employeeId, month, year) ==
  /\ req[r].pc = "idle"
  /\ LET q == [IdleReq EXCEPT !.op = "PayrollService.processPayroll",
                              !.eid = employeeId, !.month = Num(month),
                              !.year = Num(year)]
     IN req' = [req EXCEPT ![r] =
          IF FindByTriple(payroll, employeeId, month, year) # {}
            THEN [q EXCEPT !.pc = "done", !.status = 500,
                           !.errors = {[employeeId |-> employeeId,
                                        message |-> AlreadyProcessed]}]
            ELSE [q EXCEPT !.pc = "employee"]]
  /\ UNCHANGED <<employee, payroll, nextId, now, repeat, teacher, officer, staff, settings>>

\* the findUnique of the employee and the rest of the call: it throws
\* before a record is created
ServiceProcessPayrollEmployee(r) ==
  /\ req[r].op = "PayrollService.processPayroll"
  /\ req[r].pc = "employee"
  /\ LET q == req[r]
         found == EmployeeById(employee, q.eid)
         msg == IF found = {} THEN ErrEmployeeNotFound
                ELSE ProcessPayrollThrows(Val(found))
     IN req' = [req EXCEPT ![r] =
          [q EXCEPT !.pc = "done", !.status = 500,
                    !.errors = {[employeeId |-> q.eid, message |-> msg]}]]
  /\ UNCHANGED <<employee, payroll, nextId, now, repeat, teacher, officer, staff, settings>>

\* the loop of processMonthlyPayroll goes on, or the call returns
ServiceAfterEmployee(q, e) ==
  LET rest == q.todo \ {e}
  IN [q EXCEPT !.todo = rest, !.cur = {},
               !.pc = IF rest = {} THEN "done" ELSE "find",
               !.status = IF rest = {} THEN 200 ELSE 0]

\* PayrollService.processMonthlyPayroll(month, year): the ACTIVE employees
ServiceProcessMonthlyStart(r, month, year) ==
  /\ req[r].pc = "idle"
  /\ LET q == [IdleReq EXCEPT !.op = "PayrollService.processMonthlyPayroll",
                              !.month = Num(month), !.year = Num(year)]
         emps == {e \in employee : e.status = "ACTIVE"}
     IN req' = [req EXCEPT ![r] =
          IF emps = {}
            THEN [q EXCEPT !.pc = "done", !.status = 200]
            ELSE [q EXCEPT !.pc = "find", !.employees = emps, !.todo = emps]]
  /\ UNCHANGED <<employee, payroll, nextId, now, repeat, teacher, officer, staff, settings>>

\* one iteration: processPayroll of the next employee, up to its findFirst
ServiceProcessMonthlyFind(r) ==
  /\ req[r].op = "PayrollService.processMonthlyPayroll"
  /\ req[r].pc = "find"
  /\ \E e \in req[r].todo :
       LET q == req[r]
       IN req' = [req EXCEPT ![r] =
            IF FindByTriple(payroll, e.id, q.month.n, q.year.n) # {}
              THEN ServiceAfterEmployee(
                     [q EXCEPT !.errors = @ \cup {[employeeId |-> e.id,
                                                   message |-> AlreadyProcessed]}], e)
              ELSE [q EXCEPT !.pc = "employee", !.cur = {e}]]
  /\ UNCHANGED <<employee, payroll, nextId, now, repeat, teacher, officer, staff, settings>>

\* the rest of the iteration: processPayroll throws and the loop keeps the
\* message
ServiceProcessMonthlyEmployee(r) ==
  /\ req[r].op = "PayrollService.processMonthlyPayroll"
  /\ req[r].pc = "employee"
  /\ LET q == req[r]
         e == Val(q.cur)
         found == EmployeeById(employee, e.id)
         msg == IF found = {} THEN ErrEmployeeNotFound
                ELSE ProcessPayrollThrows(Val(found))
     IN req' = [req EXCEPT ![r] =
          ServiceAfterEmployee(
            [q EXCEPT !.errors = @ \cup {[employeeId |-> e.id, message |-> msg]}], e)]
  /\ UNCHANGED <<employee, payroll, nextId, now, repeat, teacher, officer, staff, settings>>

\* payroll.update({where: {id}, data: {status}})
WithStatus(table, id, status) ==
  {IF p.id = id THEN [p EXCEPT !.status = status] ELSE p : p \in table}

\* PayrollService.updatePayrollStatus(id, status): one update
ServiceUpdatePayrollStatus(r, id, status) ==
  /\ req[r].pc = "idle"
  /\ LET q == [IdleReq EXCEPT !.op = "PayrollService.updatePayrollStatus",
                              !.pid = id, !.kind = status]
     IN IF FindById(payroll, id) = {} \/ status \notin PayrollStatuses
          THEN /\ req' = [req EXCEPT ![r] = [q EXCEPT !.pc = "done", !.status = 500]]
               /\ UNCHANGED payroll
          ELSE /\ payroll' = WithStatus(payroll, id, status)
               /\ req' = [req EXCEPT ![r] = [q EXCEPT !.pc = "done", !.status = 200]]
  /\ UNCHANGED <<employee, nextId, now, repeat, teacher, officer, staff, settings>>

(***************************************************************************)
(* The settings routes: GET /, GET /:key, PUT /:key.                       *)
(***************************************************************************)
\* settings.findUnique({where: {key}})
SettingByKey(table, key) == {x \in table : x.key = key}

\* a row of the Settings table; its id is a fresh cuid()
SettingRow(table, key, value) ==
  [id |-> Cardinality(table) + 1, key |-> key, value |-> value]

\* the mutant of Settings_key_key: the index lets a second row in
InsertSettingUnchecked(table, key, value) ==
  [ok |-> TRUE, table |-> table \cup {SettingRow(table, key, value)}]

\* INSERT under the unique index Settings_key_key
InsertSetting(table, key, value) ==
  IF SettingByKey(table, key) # {}
    THEN [ok |-> FALSE, table |-> table]
    ELSE [ok |-> TRUE, table |-> table \cup {SettingRow(table, key, value)}]

\* UPDATE ... SET value WHERE key
UpdateSetting(table, key, value) ==
  {IF x.key = key THEN [x EXCEPT !.value = value] ELSE x : x \in table}

\* `value` is a String column: another JSON type fails the validation
SettingRejected(value) == value.k # "str"

\* GET /: one findMany
GetSettings(r) ==
  /\ req[r].pc = "idle"
  /\ req' = [req EXCEPT ![r] =
       [IdleReq EXCEPT !.op = "getSettings", !.pc = "done", !.status = 200,
                       !.processed = {[key |-> x.key, value |-> x.value] : x \in settings}]]
  /\ UNCHANGED <<employee, payroll, nextId, now, repeat, teacher, officer, staff, settings>>

\* GET /:key: one findUnique
GetSetting(r, key) ==
  /\ req[r].pc = "idle"
  /\ LET q == [IdleReq EXCEPT !.op = "getSetting", !.key = key, !.pc = "done"]
         found == SettingByKey(settings, key)
     IN req' = [req EXCEPT ![r] =
          IF found = {} THEN [q EXCEPT !.status = 404]
          ELSE [q EXCEPT !.status = 200, !.value = Val(found).value]]
  /\ UNCHANGED <<employee, payroll, nextId, now, repeat, teacher, officer, staff, settings>>

\* PUT /:key: the check of `value` and settings.upsert.  The upsert is
\* either one INSERT ... ON CONFLICT DO UPDATE, or the client's SELECT
\* followed by an INSERT or an UPDATE (PutSettingWrite).
PutSetting(r, key, value) ==
  /\ req[r].pc = "idle"
  /\ LET q == [IdleReq EXCEPT !.op = "putSetting", !.key = key, !.value = value]
     IN IF ~Truthy(value)
          THEN /\ req' = [req EXCEPT ![r] = [q EXCEPT !.pc = "done", !.status = 400]]
               /\ UNCHANGED settings
          ELSE IF SettingRejected(value)
          THEN /\ req' = [req EXCEPT ![r] = [q EXCEPT !.pc = "done", !.status = 500]]
               /\ UNCHANGED settings
          ELSE \/ /\ settings' =
                       IF SettingByKey(settings, key) # {}
                         THEN UpdateSetting(settings, key, value)
                         ELSE InsertSetting(settings, key, value).table
                  /\ req' = [req EXCEPT ![r] = [q EXCEPT !.pc = "done", !.status = 200]]
               \/ /\ req' = [req EXCEPT ![r] =
                       [q EXCEPT !.pc = "write",
                                 !.count = Cardinality(SettingByKey(settings, key))]]
                  /\ UNCHANGED settings
  /\ UNCHANGED <<employee, payroll, nextId, now, repeat, teacher, officer, staff>>

\* the write of the upsert that selected first: an UPDATE of the row it
\* found, or an INSERT, which the unique index refuses when another request
\* has written the key in between
PutSettingWrite(r) ==
  /\ req[r].op = "putSetting"
  /\ req[r].pc = "write"
  /\ LET q == req[r]
         ins == InsertSetting(settings, q.key, q.value)
     IN IF q.count > 0
          THEN /\ settings' = UpdateSetting(settings, q.key, q.value)
               /\ req' = [req EXCEPT ![r] = [q EXCEPT !.pc = "done", !.status = 200]]
          ELSE /\ settings' = ins.table
               /\ req' = [req EXCEPT ![r] =
                    [q EXCEPT !.pc = "done",
                              !.status = IF ins.ok THEN 200 ELSE 500]]
  /\ UNCHANGED <<employee, payroll, nextId, now, repeat, teacher, officer, staff>>

(***************************************************************************)
(* getAllPayrolls, getAllEmployees: the paginated listings                 *)
(***************************************************************************)
\* `page = '1'`, `limit = '10'`: the default of an absent parameter
OrDefault(v, d) == IF v.k = "undef" THEN d ELSE v

\* a text parameter that is absent or empty is falsy
Given(o) == o # None /\ o # {""}

\* the sequences that list every row of S once
Orders(S) ==
  {f \in [1..Cardinality(S) -> S] :
     \A i, j \in 1..Cardinality(S) : i # j => f[i] # f[j]}

\* the rows in an order the store may return them in: no row before one
\* that `Before` puts before it
OrderedBy(S, Before(_, _)) ==
  {f \in Orders(S) :
     \A i, j \in 1..Cardinality(S) : i < j => ~Before(f[j], f[i])}

\* orderBy [{year: 'desc'}, {month: 'desc'}, {createdAt: 'desc'}]; rows of
\* one period come in the order of their creation times, which the rows of
\* this model do not carry
PayrollBefore(p, q) ==
  \/ p.year > q.year
  \/ p.year = q.year /\ p.month > q.month

\* orderBy {createdAt: 'desc'}
EmployeeBefore(e, f) == FALSE

\* `skip` and `take` applied to the ordered rows
SliceAll(rows, skip, take) == rows

Slice(rows, skip, take) ==
  SubSeq(rows, skip + 1, IF skip + take < Len(rows) THEN skip + take ELSE Len(rows))

\* Math.ceil(total / limit), both at least 0: a division by 0 gives Infinity
\* or NaN, neither of which is a number of pages
Infinity == [nan |-> TRUE, n |-> 1]

MathCeil(total, limit) ==
  IF limit = 0 THEN (IF total = 0 THEN NaN ELSE Infinity)
  ELSE Int32((total + limit - 1) \div limit)

\* the `where` of getAllPayrolls
PayrollMatches(p, query) ==
  /\ Truthy(query.month) => p.month = parseInt(query.month).n
  /\ Truthy(query.year) => p.year = parseInt(query.year).n
  /\ Given(query.status) => p.status = Val(query.status)
  /\ Given(query.employeeId) => p.employeeId = Val(query.employeeId)

\* the store refuses the query: a NaN or an unknown enum value in `where`,
\* a NaN or negative `skip`, a NaN `take`
PayrollQueryRejected(query, page, limit) ==
  \/ page.nan \/ limit.nan
  \/ (page.n - 1) * limit.n < 0
  \/ Truthy(query.month) /\ parseInt(query.month).nan
  \/ Truthy(query.year) /\ parseInt(query.year).nan
  \/ Given(query.status) /\ Val(query.status) \notin PayrollStatuses

\* payroll.findMany({where, skip, take, orderBy}), the first of the two
\* queries of Promise.all
GetAllPayrollsFind(r, query) ==
  /\ req[r].pc = "idle"
  /\ LET q == [IdleReq EXCEPT !.op = "getAllPayrolls", !.query = query]
         page == parseInt(OrDefault(query.page, Str(<<"1">>)))
         limit == parseInt(OrDefault(query.limit, Str(<<"1", "0">>)))
         found == {p \in payroll : PayrollMatches(p, query)}
     IN IF PayrollQueryRejected(query, page, limit)
          THEN req' = [req EXCEPT ![r] = [q EXCEPT !.pc = "done", !.status = 500]]
          ELSE \E rows \in OrderedBy(found, PayrollBefore) :
                 req' = [req EXCEPT ![r] =
                   [q EXCEPT !.pc = "count",
                             !.rows = Slice(rows, (page.n - 1) * limit.n, limit.n)]]
  /\ UNCHANGED <<employee, payroll, nextId, now, repeat, teacher, officer, staff, settings>>

\* payroll.count({where}), the second query, and the response
GetAllPayrollsCount(r) ==
  /\ req[r].op = "getAllPayrolls"
  /\ req[r].pc = "count"
  /\ LET query == req[r].query
         page == parseInt(OrDefault(query.page, Str(<<"1">>)))
         limit == parseInt(OrDefault(query.limit, Str(<<"1", "0">>)))
         total == Cardinality({p \in payroll : PayrollMatches(p, query)})
     IN req' = [req EXCEPT ![r].pc = "done", ![r].status = 200,
                           ![r].data = [total |-> total, page |-> page,
                                        limit |-> limit,
                                        totalPages |-> MathCeil(total, limit.n)]]
  /\ UNCHANGED <<employee, payroll, nextId, now, repeat, teacher, officer, staff, settings>>

EmployeeStatuses == {"ACTIVE", "INACTIVE"}

\* `if (search)`: a search term that is absent or empty is falsy
GivenChars(o) == o # None /\ o # {<< >>}

\* mode: 'insensitive' compares the texts without regard to the case of
\* their letters
UpperCase ==
  <<"A", "B", "C", "D", "E", "F", "G", "H", "I", "J", "K", "L", "M",
    "N", "O", "P", "Q", "R", "S", "T", "U", "V", "W", "X", "Y", "Z">>
LowerCase ==
  <<"a", "b", "c", "d", "e", "f", "g", "h", "i", "j", "k", "l", "m",
    "n", "o", "p", "q", "r", "s", "t", "u", "v", "w", "x", "y", "z">>

Fold(c) ==
  IF \E i \in DOMAIN UpperCase : UpperCase[i] = c
    THEN LowerCase[CHOOSE i \in DOMAIN UpperCase : UpperCase[i] = c]
    ELSE c

Folded(text) == [i \in DOMAIN text |-> Fold(text[i])]

\* {contains: term}: the term is a run of consecutive characters of the text
Contains(text, term) ==
  \E i \in 0..(Len(text) - Len(term)) : SubSeq(text, i + 1, i + Len(term)) = term

\* {contains: term, mode: 'insensitive'}
ContainsInsensitive(text, term) == Contains(Folded(text), Folded(term))

\* a search that wants the term in the name, the email and the phone alike
EmployeeMatchesEveryField(e, query) ==
  /\ Given(query.type) => e.employeeType = Val(query.type)
  /\ Given(query.status) => e.status = Val(query.status)
  /\ GivenChars(query.search) =>
       /\ ContainsInsensitive(e.name, Val(query.search))
       /\ ContainsInsensitive(e.email, Val(query.search))
       /\ ContainsInsensitive(e.phone, Val(query.search))

\* the `where` of getAllEmployees
EmployeeMatches(e, query) ==
  /\ Given(query.type) => e.employeeType = Val(query.type)
  /\ Given(query.status) => e.status = Val(query.status)
  /\ GivenChars(query.search) =>
       \/ ContainsInsensitive(e.name, Val(query.search))
       \/ ContainsInsensitive(e.email, Val(query.search))
       \/ ContainsInsensitive(e.phone, Val(query.search))

EmployeeQueryRejected(query, page, limit) ==
  \/ page.nan \/ limit.nan
  \/ (page.n - 1) * limit.n < 0
  \/ Given(query.type) /\ Val(query.type) \notin EmployeeTypes
  \/ Given(query.status) /\ Val(query.status) \notin EmployeeStatuses

\* employee.findMany({where, skip, take, orderBy})
GetAllEmployeesFind(r, query) ==
  /\ req[r].pc = "idle"
  /\ LET q == [IdleReq EXCEPT !.op = "getAllEmployees", !.query = query]
         page == parseInt(OrDefault(query.page, Str(<<"1">>)))
         limit == parseInt(OrDefault(query.limit, Str(<<"1", "0">>)))
         found == {e \in employee : EmployeeMatches(e, query)}
     IN IF EmployeeQueryRejected(query, page, limit)
          THEN req' = [req EXCEPT ![r] = [q EXCEPT !.pc = "done", !.status = 500]]
          ELSE \E rows \in OrderedBy(found, EmployeeBefore) :
                 req' = [req EXCEPT ![r] =
                   [q EXCEPT !.pc = "count",
                             !.rows = Slice(rows, (page.n - 1) * limit.n, limit.n)]]
  /\ UNCHANGED <<employee, payroll, nextId, now, repeat, teacher, officer, staff, settings>>

\* employee.count({where}) and the response
GetAllEmployeesCount(r) ==
  /\ req[r].op = "getAllEmployees"
  /\ req[r].pc = "count"
  /\ LET query == req[r].query
         page == parseInt(OrDefault(query.page, Str(<<"1">>)))
         limit == parseInt(OrDefault(query.limit, Str(<<"1", "0">>)))
         total == Cardinality({e \in employee : EmployeeMatches(e, query)})
     IN req' = [req EXCEPT ![r].pc = "done", ![r].status = 200,
                           ![r].data = [total |-> total, page |-> page,
                                        limit |-> limit,
                                        totalPages |-> MathCeil(total, limit.n)]]
  /\ UNCHANGED <<employee, payroll, nextId, now, repeat, teacher, officer, staff, settings>>

\* EmployeeService.getAllEmployees(filters): page and limit are numbers, with
\* the defaults 1 and 10; the call throws where the store refuses the query
ServiceGetAllEmployeesFind(r, filters) ==
  /\ req[r].pc = "idle"
  /\ LET q == [IdleReq EXCEPT !.op = "EmployeeService.getAllEmployees", !.query = filters]
         page == OrDefault(filters.page, Num(1)).n
         limit == OrDefault(filters.limit, Num(10)).n
         found == {e \in employee : EmployeeMatches(e, filters)}
     IN IF EmployeeQueryRejected(filters, Int32(page), Int32(limit))
          THEN req' = [req EXCEPT ![r] = [q EXCEPT !.pc = "done", !.status = 500]]
          ELSE \E rows \in OrderedBy(found, EmployeeBefore) :
                 req' = [req EXCEPT ![r] =
                   [q EXCEPT !.pc = "count",
                             !.rows = Slice(rows, (page - 1) * limit, limit)]]
  /\ UNCHANGED <<employee, payroll, nextId, now, repeat, teacher, officer, staff, settings>>

ServiceGetAllEmployeesCount(r) ==
  /\ req[r].op = "EmployeeService.getAllEmployees"
  /\ req[r].pc = "count"
  /\ LET filters == req[r].query
         page == OrDefault(filters.page, Num(1)).n
         limit == OrDefault(filters.limit, Num(10)).n
         total == Cardinality({e \in employee : EmployeeMatches(e, filters)})
     IN req' = [req EXCEPT ![r].pc = "done", ![r].status = 200,
                           ![r].data = [total |-> total, page |-> Int32(page),
                                        limit |-> Int32(limit),
                                        totalPages |-> MathCeil(total, limit)]]
  /\ UNCHANGED <<employee, payroll, nextId, now, repeat, teacher, officer, staff, settings>>

\* PayrollService.getAllPayrolls(filters): page and limit are numbers, with
\* the defaults 1 and 10; the call throws where the store refuses the query
ServiceGetAllPayrollsFind(r, filters) ==
  /\ req[r].pc = "idle"
  /\ LET q == [IdleReq EXCEPT !.op = "PayrollService.getAllPayrolls", !.query = filters]
         page == OrDefault(filters.page, Num(1)).n
         limit == OrDefault(filters.limit, Num(10)).n
         found == {p \in payroll : PayrollMatches(p, filters)}
     IN IF PayrollQueryRejected(filters, Int32(page), Int32(limit))
          THEN req' = [req EXCEPT ![r] = [q EXCEPT !.pc = "done", !.status = 500]]
          ELSE \E rows \in OrderedBy(found, PayrollBefore) :
                 req' = [req EXCEPT ![r] =
                   [q EXCEPT !.pc = "count",
                             !.rows = Slice(rows, (page - 1) * limit, limit)]]
  /\ UNCHANGED <<employee, payroll, nextId, now, repeat, teacher, officer, staff, settings>>

ServiceGetAllPayrollsCount(r) ==
  /\ req[r].op = "PayrollService.getAllPayrolls"
  /\ req[r].pc = "count"
  /\ LET filters == req[r].query
         page == OrDefault(filters.page, Num(1)).n
         limit == OrDefault(filters.limit, Num(10)).n
         total == Cardinality({p \in payroll : PayrollMatches(p, filters)})
     IN req' = [req EXCEPT ![r].pc = "done", ![r].status = 200,
                           ![r].data = [total |-> total, page |-> Int32(page),
                                        limit |-> Int32(limit),
                                        totalPages |-> MathCeil(total, limit)]]
  /\ UNCHANGED <<employee, payroll, nextId, now, repeat, teacher, officer, staff, settings>>

(***************************************************************************)
(* The reports: getMonthlySummary, getYearlyComparison, and the period     *)
(* reports by employee type, department and designation                    *)
(***************************************************************************)
\* `for (let month = 1; month <= 12; month++)`
LastMonth == 12

\* payrolls.reduce((sum, p) => sum + p[f], 0), and the `_sum` of an
\* aggregate with `|| 0` for the null of no rows
RECURSIVE SumField(_, _)
SumField(S, f) ==
  IF S = {} THEN 0
  ELSE LET x == CHOOSE y \in S : TRUE
       IN x[f] + SumField(S \ {x}, f)

\* the rows `where: {month, year}` matches
InYear(table, m, y) == {p \in table : p.year = y}

InPeriod(table, m, y) == {p \in table : p.month = m /\ p.year = y}

\* the handler checks `year`
GetMonthlySummaryStart(r, year) ==
  /\ req[r].pc = "idle"
  /\ LET q == [IdleReq EXCEPT !.op = "getMonthlySummary", !.year = year]
     IN req' = [req EXCEPT ![r] =
          IF ~Truthy(year)
            THEN [q EXCEPT !.pc = "done", !.status = 400]
            ELSE [q EXCEPT !.pc = "month", !.loop = 1]]
  /\ UNCHANGED <<employee, payroll, nextId, now, repeat, teacher, officer, staff, settings>>

\* one iteration: payroll.findMany of the month and the entry pushed
GetMonthlySummaryMonth(r) ==
  /\ req[r].op = "getMonthlySummary"
  /\ req[r].pc = "month"
  /\ LET q == req[r]
         y == parseInt(q.year)
         payrolls == InPeriod(payroll, q.loop, y.n)
         entry == [month |-> q.loop,
                   totalEmployees |-> Cardinality(payrolls),
                   totalBasic |-> SumField(payrolls, "basicSalary"),
                   totalGross |-> SumField(payrolls, "grossSalary"),
                   totalNet |-> SumField(payrolls, "netSalary")]
     IN req' = [req EXCEPT ![r] =
          IF y.nan
            THEN [q EXCEPT !.pc = "done", !.status = 500]
          ELSE IF q.loop = LastMonth
            THEN [q EXCEPT !.rows = Append(@, entry), !.pc = "done", !.status = 200]
          ELSE [q EXCEPT !.rows = Append(@, entry), !.loop = @ + 1]]
  /\ UNCHANGED <<employee, payroll, nextId, now, repeat, teacher, officer, staff, settings>>

GetYearlyComparisonStart(r, year) ==
  /\ req[r].pc = "idle"
  /\ LET q == [IdleReq EXCEPT !.op = "getYearlyComparison", !.year = year]
     IN req' = [req EXCEPT ![r] =
          IF ~Truthy(year)
            THEN [q EXCEPT !.pc = "done", !.status = 400]
            ELSE [q EXCEPT !.pc = "month", !.loop = 1]]
  /\ UNCHANGED <<employee, payroll, nextId, now, repeat, teacher, officer, staff, settings>>

\* monthlyData.reduce(...): the yearly totals
RECURSIVE YearlyTotal(_)
YearlyTotal(monthlyData) ==
  IF monthlyData = << >> THEN NoTotal
  ELSE LET acc == YearlyTotal(SubSeq(monthlyData, 1, Len(monthlyData) - 1))
           month == monthlyData[Len(monthlyData)]
       IN [totalBasicSalary |-> acc.totalBasicSalary + month.totalBasicSalary,
           totalGrossSalary |-> acc.totalGrossSalary + month.totalGrossSalary,
           totalNetSalary |-> acc.totalNetSalary + month.totalNetSalary]

\* one iteration: payroll.aggregate of the month and the entry pushed (the
\* monthName of the entry is the name of `month`); after the last one, the
\* yearly totals
GetYearlyComparisonMonth(r) ==
  /\ req[r].op = "getYearlyComparison"
  /\ req[r].pc = "month"
  /\ LET q == req[r]
         yearNum == parseInt(q.year)
         stats == InPeriod(payroll, q.loop, yearNum.n)
         entry == [month |-> q.loop,
                   employeeCount |-> Cardinality(stats),
                   totalBasicSalary |-> SumField(stats, "basicSalary"),
                   totalGrossSalary |-> SumField(stats, "grossSalary"),
                   totalNetSalary |-> SumField(stats, "netSalary")]
     IN req' = [req EXCEPT ![r] =
          IF yearNum.nan
            THEN [q EXCEPT !.pc = "done", !.status = 500]
          ELSE IF q.loop = LastMonth
            THEN [q EXCEPT !.rows = Append(@, entry), !.pc = "done", !.status = 200,
                           !.yearlyTotal = YearlyTotal(Append(q.rows, entry))]
          ELSE [q EXCEPT !.rows = Append(@, entry), !.loop = @ + 1]]
  /\ UNCHANGED <<employee, payroll, nextId, now, repeat, teacher, officer, staff, settings>>

\* `include: {employee}`: the Employee row of a Payroll row
EmployeeOf(p) == CHOOSE e \in employee : e.id = p.employeeId

\* `include: {employee: {include: {teacher}}}`: the rows of the employee's
\* teacher extension (none when payroll.employee.teacher is null)
TeacherOf(p) == ExtensionOf(teacher, p.employeeId)

\* the Map after `payroll` was counted under `key`: a new group is set at
\* the end, an existing one is updated in its place
Accumulate(groups, key, p) ==
  LET zero == [key |-> key, count |-> 0, totalBasicSalary |-> 0,
               totalAllowances |-> 0, totalDeductions |-> 0,
               totalGrossSalary |-> 0, totalNetSalary |-> 0]
      add(g) == [g EXCEPT !.count = @ + 1,
                          !.totalBasicSalary = @ + p.basicSalary,
                          !.totalAllowances = @ + totalAllowances(p),
                          !.totalDeductions = @ + totalDeductions(p),
                          !.totalGrossSalary = @ + p.grossSalary,
                          !.totalNetSalary = @ + p.netSalary]
  IN IF \E i \in 1..Len(groups) : groups[i].key = key
       THEN [i \in 1..Len(groups) |->
               IF groups[i].key = key THEN add(groups[i]) ELSE groups[i]]
       ELSE Append(groups, add(zero))

\* payrolls.forEach(...): the Map after the records, keys[i] being the key
\* of records[i]
RECURSIVE GroupBy(_, _, _)
GroupBy(groups, records, keys) ==
  IF records = << >> THEN groups
  ELSE GroupBy(Accumulate(groups, Head(keys), Head(records)),
               Tail(records), Tail(keys))

\* a period report refuses the request (400) or the store the query (500)
PeriodStatus(month, year) ==
  IF ~Truthy(month) \/ ~Truthy(year) THEN 400
  ELSE IF parseInt(month).nan \/ parseInt(year).nan THEN 500
  ELSE 200

\* getSalaryReportByType: one findMany, grouped by employee.employeeType
GetSalaryReportByType(r, month, year) ==
  /\ req[r].pc = "idle"
  /\ LET q == [IdleReq EXCEPT !.op = "getSalaryReportByType", !.month = month,
                              !.year = year, !.pc = "done",
                              !.status = PeriodStatus(month, year)]
     IN IF q.status # 200
          THEN req' = [req EXCEPT ![r] = q]
          ELSE \E payrolls \in Orders(InPeriod(payroll, parseInt(month).n, parseInt(year).n)) :
                 LET keys == [i \in 1..Len(payrolls) |-> EmployeeOf(payrolls[i]).employeeType]
                     typeMap == GroupBy(<< >>, payrolls, keys)
                 IN req' = [req EXCEPT ![r] = [q EXCEPT !.rows =
                      [i \in 1..Len(typeMap) |->
                         [employeeType |-> typeMap[i].key,
                          count |-> typeMap[i].count,
                          totalBasicSalary |-> typeMap[i].totalBasicSalary,
                          totalAllowances |-> typeMap[i].totalAllowances,
                          totalDeductions |-> typeMap[i].totalDeductions,
                          totalGrossSalary |-> typeMap[i].totalGrossSalary,
                          totalNetSalary |-> typeMap[i].totalNetSalary]]]]
  /\ UNCHANGED <<employee, payroll, nextId, now, repeat, teacher, officer, staff, settings>>

\* the records of the period whose employee is a TEACHER
TeacherPayrolls(m, y) ==
  {p \in InPeriod(payroll, m, y) : EmployeeOf(p).employeeType = "TEACHER"}

\* `if (!payroll.employee.teacher) return;`
HasTeacher(p) == TeacherOf(p) # {}

\* getDepartmentReport: one findMany of the teachers' records, grouped by
\* employee.teacher.department
GetDepartmentReport(r, month, year) ==
  /\ req[r].pc = "idle"
  /\ LET q == [IdleReq EXCEPT !.op = "getDepartmentReport", !.month = month,
                              !.year = year, !.pc = "done",
                              !.status = PeriodStatus(month, year)]
     IN IF q.status # 200
          THEN req' = [req EXCEPT ![r] = q]
          ELSE \E payrolls \in Orders(TeacherPayrolls(parseInt(month).n, parseInt(year).n)) :
                 LET counted == SelectSeq(payrolls, HasTeacher)
                     keys == [i \in 1..Len(counted) |->
                                Val(TeacherOf(counted[i])).department]
                     deptMap == GroupBy(<< >>, counted, keys)
                 IN req' = [req EXCEPT ![r] = [q EXCEPT !.rows =
                      [i \in 1..Len(deptMap) |->
                         [department |-> deptMap[i].key,
                          count |-> deptMap[i].count,
                          totalBasicSalary |-> deptMap[i].totalBasicSalary,
                          totalGrossSalary |-> deptMap[i].totalGrossSalary,
                          totalNetSalary |-> deptMap[i].totalNetSalary]]]]
  /\ UNCHANGED <<employee, payroll, nextId, now, repeat, teacher, officer, staff, settings>>

\* a total that is not divided
QuotientByOne(a, b) == [num |-> a, den |-> 1]

\* item.totalNetSalary / item.count, kept as the two numbers of the quotient
Quotient(a, b) == [num |-> a, den |-> b]

\* getDesignationReport: one findMany, grouped by employee.designation, and
\* the averages
GetDesignationReport(r, month, year) ==
  /\ req[r].pc = "idle"
  /\ LET q == [IdleReq EXCEPT !.op = "getDesignationReport", !.month = month,
                              !.year = year, !.pc = "done",
                              !.status = PeriodStatus(month, year)]
     IN IF q.status # 200
          THEN req' = [req EXCEPT ![r] = q]
          ELSE \E payrolls \in Orders(InPeriod(payroll, parseInt(month).n, parseInt(year).n)) :
                 LET keys == [i \in 1..Len(payrolls) |-> EmployeeOf(payrolls[i]).designation]
                     desigMap == GroupBy(<< >>, payrolls, keys)
                 IN req' = [req EXCEPT ![r] = [q EXCEPT !.rows =
                      [i \in 1..Len(desigMap) |->
                         [designation |-> desigMap[i].key,
                          count |-> desigMap[i].count,
                          totalBasicSalary |-> desigMap[i].totalBasicSalary,
                          totalGrossSalary |-> desigMap[i].totalGrossSalary,
                          totalNetSalary |-> desigMap[i].totalNetSalary,
                          averageSalary |-> Quotient(desigMap[i].totalNetSalary,
                                                     desigMap[i].count)]]]]
  /\ UNCHANGED <<employee, payroll, nextId, now, repeat, teacher, officer, staff, settings>>

(***************************************************************************)
(* The environment: time passes; a response is sent and the slot is free.  *)
(***************************************************************************)
Tick ==
  /\ now < MaxTime
  /\ now' = now + 1
  /\ UNCHANGED <<employee, payroll, nextId, req, repeat, teacher, officer, staff, settings>>

\* the response leaves and the slot is free
Respond(r) ==
  /\ req[r].pc = "done"
  /\ req' = [req EXCEPT ![r] = IdleReq]
  /\ repeat' = repeat \ {r}
  /\ UNCHANGED <<employee, payroll, nextId, now, teacher, officer, staff, settings>>

(***************************************************************************)
(* getPayrollSummary, getDashboardStats: the counts of a period            *)
(***************************************************************************)
\* the four queries getPayrollSummary hands to Promise.all
SummaryQueries == {"total", "paid", "pending", "summary"}

\* payroll.count({where: {month, year, status}})
CountOf(table, m, y, status) ==
  Cardinality({p \in InPeriod(table, m, y) : p.status = status})

\* payroll.aggregate({where, _sum}) and the totals the response makes of it
Aggregate(table, m, y) ==
  LET S == InPeriod(table, m, y)
  IN [basicSalary |-> SumField(S, "basicSalary"),
      totalAllowances |-> SumField(S, "houseRent") + SumField(S, "medical")
                          + SumField(S, "transport") + SumField(S, "education")
                          + SumField(S, "special"),
      totalDeductions |-> SumField(S, "tax") + SumField(S, "providentFund")
                          + SumField(S, "insurance") + SumField(S, "loan")
                          + SumField(S, "other"),
      grossSalary |-> SumField(S, "grossSalary"),
      netSalary |-> SumField(S, "netSalary")]

\* what query `which` of a period adds to the answer of request q
Answered(q, which, m, y) ==
  CASE which = "total" ->
         [q EXCEPT !.counts.total = Cardinality(InPeriod(payroll, m, y))]
    [] which = "paid" ->
         [q EXCEPT !.counts.paid = CountOf(payroll, m, y, "PAID")]
    [] which = "pending" ->
         [q EXCEPT !.counts.pending = CountOf(payroll, m, y, "PENDING")]
    [] which = "summary" ->
         [q EXCEPT !.totals = Aggregate(payroll, m, y)]

\* the handler checks month and year and hands the four queries to the store
GetPayrollSummaryStart(r, month, year) ==
  /\ req[r].pc = "idle"
  /\ LET q == [IdleReq EXCEPT !.op = "getPayrollSummary", !.month = month,
                              !.year = year, !.status = PeriodStatus(month, year)]
     IN req' = [req EXCEPT ![r] =
          IF q.status # 200
            THEN [q EXCEPT !.pc = "done"]
            ELSE [q EXCEPT !.pc = "queries", !.status = 0, !.queries = SummaryQueries]]
  /\ UNCHANGED <<employee, payroll, nextId, now, repeat, teacher, officer, staff, settings>>

\* the store answers one of the queries that are still out, each from the
\* rows it finds at that moment; the response leaves with the last answer
GetPayrollSummaryQuery(r, which) ==
  /\ req[r].op = "getPayrollSummary"
  /\ req[r].pc = "queries"
  /\ which \in req[r].queries
  /\ LET q == Answered(req[r], which, parseInt(req[r].month).n, parseInt(req[r].year).n)
         rest == req[r].queries \ {which}
     IN req' = [req EXCEPT ![r] =
          IF rest = {}
            THEN [q EXCEPT !.queries = rest, !.pc = "done", !.status = 200]
            ELSE [q EXCEPT !.queries = rest]]
  /\ UNCHANGED <<employee, payroll, nextId, now, repeat, teacher, officer, staff, settings>>

\* currentDate.getMonth() + 1 and currentDate.getFullYear() of the day the
\* requests of this model arrive
CurrentMonth == 3
CurrentYear == 2025

\* the five employee counts getDashboardStats hands to Promise.all
EmployeeQueries ==
  {"totalEmployees", "activeEmployees", "teacherCount", "officerCount", "staffCount"}

EmployeeCount(table, which) ==
  CASE which = "totalEmployees" -> Cardinality(table)
    [] which = "activeEmployees" -> Cardinality({e \in table : e.status = "ACTIVE"})
    [] which = "teacherCount" -> Cardinality({e \in table : e.employeeType = "TEACHER"})
    [] which = "officerCount" -> Cardinality({e \in table : e.employeeType = "OFFICER"})
    [] which = "staffCount" -> Cardinality({e \in table : e.employeeType = "STAFF"})

GetDashboardStatsStart(r) ==
  /\ req[r].pc = "idle"
  /\ req' = [req EXCEPT ![r] =
       [IdleReq EXCEPT !.op = "getDashboardStats", !.pc = "employees",
                       !.month = Num(CurrentMonth), !.year = Num(CurrentYear),
                       !.queries = EmployeeQueries]]
  /\ UNCHANGED <<employee, payroll, nextId, now, repeat, teacher, officer, staff, settings>>

\* the store answers one of the employee counts
GetDashboardStatsEmployees(r, which) ==
  /\ req[r].op = "getDashboardStats"
  /\ req[r].pc = "employees"
  /\ which \in req[r].queries
  /\ LET rest == req[r].queries \ {which}
     IN req' = [req EXCEPT ![r].stats[which] = EmployeeCount(employee, which),
                           ![r].queries = rest,
                           ![r].pc = IF rest = {} THEN "total" ELSE "employees"]
  /\ UNCHANGED <<employee, payroll, nextId, now, repeat, teacher, officer, staff, settings>>

\* the awaits that follow, one query each: currentMonthPayrolls,
\* paidPayrolls, pendingPayrolls, salaryStats and the response
GetDashboardStatsPayroll(r) ==
  /\ req[r].op = "getDashboardStats"
  /\ req[r].pc \in SummaryQueries
  /\ LET q == Answered(req[r], req[r].pc, CurrentMonth, CurrentYear)
     IN req' = [req EXCEPT ![r] =
          CASE q.pc = "total" -> [q EXCEPT !.pc = "paid"]
            [] q.pc = "paid" -> [q EXCEPT !.pc = "pending"]
            [] q.pc = "pending" -> [q EXCEPT !.pc = "summary"]
            [] q.pc = "summary" -> [q EXCEPT !.pc = "done", !.status = 200]]
  /\ UNCHANGED <<employee, payroll, nextId, now, repeat, teacher, officer, staff, settings>>

(***************************************************************************)
(* The requests the clients send.                                          *)
(***************************************************************************)
\* a create / update body carrying every compensation field of `sal`
BodyOf(sal) ==
  [NoBody EXCEPT !.employeeType = Some("TEACHER"),
                 !.designation = Some("Professor"),
                 !.faculty = Some("Engineering"),
                 !.department = Some("Computer Science"),
                 !.basicSalary = Some(sal.basicSalary),
                 !.houseRent = Some(sal.houseRent), !.medical = Some(sal.medical),
                 !.transport = Some(sal.transport), !.education = Some(sal.education),
                 !.special = Some(sal.special), !.tax = Some(sal.tax),
                 !.providentFund = Some(sal.providentFund),
                 !.insurance = Some(sal.insurance), !.loan = Some(sal.loan),
                 !.other = Some(sal.other)]

\* the same for a member of the staff
\* the names, emails and phones the clients send for the two employees
NameOf(id) == IF id = "e1" THEN <<"A", "n", "n">> ELSE <<"B", "o">>
EmailOf(id) == IF id = "e1" THEN <<"a", "@", "x">> ELSE <<"b", "@", "y">>
PhoneOf(id) == IF id = "e1" THEN <<"0", "1">> ELSE <<"0", "2">>

\* the body of employee id: its identifier and its contact
As(id, body) ==
  [body EXCEPT !.employeeId = Some(id), !.name = Some(NameOf(id)),
               !.email = Some(EmailOf(id)), !.phone = Some(PhoneOf(id))]

StaffBodyOf(sal) ==
  [BodyOf(sal) EXCEPT !.employeeType = Some("STAFF"),
                      !.designation = Some("Senior Staff"),
                      !.faculty = None, !.department = None,
                      !.section = Some("Laboratory"),
                      !.shift = Some("MORNING")]

IdLists == {NoIds} \cup {Ids(S) : S \in SUBSET EmpIds}
PayrollIdLists == {NoIds} \cup {Ids(S) : S \in SUBSET PayrollIds}

\* the requests of the specification that runs every handler: one employee,
\* one period
ConcMonths == {Num(3)}
ConcYears == {Num(2025)}
ConcIdLists == {NoIds, Ids({"e1"})}
ConcCreateBodies ==
  {As("e1", BodyOf(SeedProfessor)),
   As("e1", BodyOf(Indebted))}
ConcUpdateBodies ==
  {[NoBody EXCEPT !.status = Some("INACTIVE")],
   [NoBody EXCEPT !.basicSalary = Some(90000), !.houseRent = Some(0)]}
ConcPayrollIdLists == {Ids({1, 2})}

\* the requests of the processing race: two employees, two periods
RaceMonths == {Num(3), Str(<<"0", "4">>)}
RaceCreateBodies ==
  {As("e1", BodyOf(SeedProfessor)),
   As("e2", StaffBodyOf(SeedStaff))}
RaceIdLists == {NoIds, Ids({"e1"}), Ids({"e2"})}

\* the requests of the sequential specification
Months == {Undef, Num(3), Str(<<"0", "4">>), Str(<<"x">>)}
Years == {Undef, Num(2025)}
CreateBodies ==
  {As("e1", BodyOf(SeedProfessor)),
   [As("e2", StaffBodyOf(SeedStaff)) EXCEPT !.status = Some("INACTIVE")],
   [NoBody EXCEPT !.name = Some(<<"C", "y">>),
                  !.email = Some(<<"c", "@", "z">>),
                  !.phone = Some(<<"0", "3">>),
                  !.employeeType = Some("OFFICER"),
                  !.designation = Some("Senior Officer"),
                  !.office = Some("Administration"),
                  !.basicSalary = Some(1000), !.loan = Some(5000)]}
UpdateBodies ==
  {[NoBody EXCEPT !.status = Some("INACTIVE")],
   [NoBody EXCEPT !.basicSalary = Some(0), !.houseRent = Some(0), !.loan = Some(7000)]}

\* the requests of the payment specification
PaidCreateBodies ==
  {As("e1", BodyOf(SeedProfessor)),
   As("e2", BodyOf(Indebted))}

(***************************************************************************)
(* Specifications.                                                         *)
(***************************************************************************)
\* every handler, requests interleaving at their awaits
Next ==
  \/ \E r \in Reqs, m \in ConcMonths, y \in ConcYears, ids \in ConcIdLists :
       ProcessPayrollStart(r, m, y, ids)
  \/ \E r \in Reqs : ProcessPayrollCheck(r)
  \/ \E r \in Reqs : ProcessPayrollCreate(r)
  \/ \E r \in Reqs, id \in PayrollIds : MarkPayrollAsPaidFind(r, id)
  \/ \E r \in Reqs : MarkPayrollAsPaidUpdate(r)
  \/ \E r \in Reqs, ids \in ConcPayrollIdLists : BulkMarkAsPaid(r, ids)
  \/ \E r \in Reqs, id \in PayrollIds : DeletePayrollFind(r, id)
  \/ \E r \in Reqs : DeletePayrollDelete(r)
  \/ \E r \in Reqs, body \in ConcCreateBodies : CreateEmployee(r, body)
  \/ \E r \in Reqs, id \in ConcEmpIds, body \in ConcUpdateBodies :
       UpdateEmployeeFind(r, id, body)
  \/ \E r \in Reqs : UpdateEmployeeUpdate(r)
  \/ \E r \in Reqs : UpdateEmployeeRefetch(r)
  \/ \E r \in Reqs, id \in ConcEmpIds : DeleteEmployeeFind(r, id)
  \/ \E r \in Reqs : DeleteEmployeeDelete(r)
  \/ \E r \in Reqs : Respond(r)
  \/ Tick

Spec == Init /\ [][Next]_vars

\* concurrent processPayroll requests over two employees
RaceNext ==
  \/ \E r \in Reqs, m \in RaceMonths, y \in ConcYears, ids \in RaceIdLists :
       ProcessPayrollStart(r, m, y, ids)
  \/ \E r \in Reqs : ProcessPayrollCheck(r)
  \/ \E r \in Reqs : ProcessPayrollCreate(r)
  \/ \E r \in Reqs, body \in RaceCreateBodies : CreateEmployee(r, body)
  \/ \E r \in Reqs : Respond(r)

SpecRace == Init /\ [][RaceNext]_vars

\* one request at a time: employees and processing, every kind of input
SeqNext ==
  \/ \E r \in SeqReqs, m \in Months, y \in Years, ids \in IdLists :
       ProcessPayrollStart(r, m, y, ids)
  \/ \E r \in SeqReqs : ProcessPayrollCheck(r)
  \/ \E r \in SeqReqs : ProcessPayrollCreate(r)
  \/ \E r \in SeqReqs, id \in PayrollIds : DeletePayrollFind(r, id)
  \/ \E r \in SeqReqs : DeletePayrollDelete(r)
  \/ \E r \in SeqReqs, body \in CreateBodies : CreateEmployee(r, body)
  \/ \E r \in SeqReqs, id \in EmpIds, body \in UpdateBodies : UpdateEmployeeFind(r, id, body)
  \/ \E r \in SeqReqs : UpdateEmployeeUpdate(r)
  \/ \E r \in SeqReqs : UpdateEmployeeRefetch(r)
  \/ \E r \in SeqReqs, id \in EmpIds : DeleteEmployeeFind(r, id)
  \/ \E r \in SeqReqs : DeleteEmployeeDelete(r)
  \/ \E r \in SeqReqs : ProcessPayrollAgain(r)
  \/ \E r \in SeqReqs : Respond(r)

SpecSeq == Init /\ [][SeqNext]_vars

\* one request at a time: processing and payment, the clock running
PaidNext ==
  \/ \E r \in SeqReqs, m \in ConcMonths, y \in ConcYears :
       ProcessPayrollStart(r, m, y, NoIds)
  \/ \E r \in SeqReqs : ProcessPayrollCheck(r)
  \/ \E r \in SeqReqs : ProcessPayrollCreate(r)
  \/ \E r \in SeqReqs, id \in PayrollIds : MarkPayrollAsPaidFind(r, id)
  \/ \E r \in SeqReqs : MarkPayrollAsPaidUpdate(r)
  \/ \E r \in SeqReqs, ids \in PayrollIdLists : BulkMarkAsPaid(r, ids)
  \/ \E r \in SeqReqs, id \in PayrollIds : DeletePayrollFind(r, id)
  \/ \E r \in SeqReqs : DeletePayrollDelete(r)
  \/ \E r \in SeqReqs, body \in PaidCreateBodies : CreateEmployee(r, body)
  \/ \E r \in SeqReqs : Respond(r)
  \/ Tick

SpecPaid == Init /\ [][PaidNext]_vars

\* the queries of the listing specification
ListPages == {Undef, Str(<<"1">>), Str(<<"2">>), Str(<<"0">>)}
ListLimits == {Undef, Str(<<"1">>), Str(<<"2">>), Str(<<"0">>), Str(<<"x">>)}
ListQueries ==
  {[NoQuery EXCEPT !.page = pg, !.limit = lm, !.status = st, !.month = m] :
     pg \in ListPages, lm \in ListLimits,
     st \in {None, Some("PENDING")}, m \in {Undef, Str(<<"0", "4">>)}}
ListEmployeeQueries ==
  {[NoQuery EXCEPT !.page = pg, !.limit = lm, !.status = st, !.type = ty] :
     pg \in ListPages, lm \in ListLimits,
     st \in {None, Some("ACTIVE")}, ty \in {None, Some("TEACHER")}}
ListFilters ==
  {[NoQuery EXCEPT !.page = pg, !.limit = lm, !.employeeId = id] :
     pg \in {Undef, Num(1), Num(2), Num(0)},
     lm \in {Undef, Num(1), Num(2), Num(0)},
     id \in {None, Some("e1")}}

\* one request at a time: employees, processing and the listings
ListNext ==
  \/ \E r \in SeqReqs, m \in RaceMonths, y \in ConcYears :
       ProcessPayrollStart(r, m, y, NoIds)
  \/ \E r \in SeqReqs : ProcessPayrollCheck(r)
  \/ \E r \in SeqReqs : ProcessPayrollCreate(r)
  \/ \E r \in SeqReqs, body \in CreateBodies : CreateEmployee(r, body)
  \/ \E r \in SeqReqs, query \in ListQueries : GetAllPayrollsFind(r, query)
  \/ \E r \in SeqReqs : GetAllPayrollsCount(r)
  \/ \E r \in SeqReqs, query \in ListEmployeeQueries : GetAllEmployeesFind(r, query)
  \/ \E r \in SeqReqs : GetAllEmployeesCount(r)
  \/ \E r \in SeqReqs, filters \in ListFilters : ServiceGetAllPayrollsFind(r, filters)
  \/ \E r \in SeqReqs : ServiceGetAllPayrollsCount(r)
  \/ \E r \in SeqReqs : Respond(r)

SpecList == Init /\ [][ListNext]_vars

\* the queries of the search specification
SearchTerms ==
  {None, Some(<< >>), Some(<<"a", "n">>), Some(<<"N">>), Some(<<"@">>),
   Some(<<"0", "2">>), Some(<<"z">>), Some(<<"q">>)}
SearchQueries ==
  {[NoQuery EXCEPT !.search = s, !.status = st, !.type = ty, !.limit = lm] :
     s \in SearchTerms, st \in {None, Some("ACTIVE")},
     ty \in {None, Some("TEACHER"), Some("CLERK")},
     lm \in {Undef, Str(<<"1">>)}}
SearchFilters ==
  {[NoQuery EXCEPT !.search = s, !.status = st, !.limit = lm] :
     s \in SearchTerms, st \in {None, Some("INACTIVE")}, lm \in {Undef, Num(1)}}

\* one request at a time: employees and the employee listing
SearchNext ==
  \/ \E r \in SeqReqs, body \in CreateBodies : CreateEmployee(r, body)
  \/ \E r \in SeqReqs, query \in SearchQueries : GetAllEmployeesFind(r, query)
  \/ \E r \in SeqReqs : GetAllEmployeesCount(r)
  \/ \E r \in SeqReqs, filters \in SearchFilters : ServiceGetAllEmployeesFind(r, filters)
  \/ \E r \in SeqReqs : ServiceGetAllEmployeesCount(r)
  \/ \E r \in SeqReqs : Respond(r)

SpecSearch == Init /\ [][SearchNext]_vars

\* the requests of the validation specification: parameters present, absent
\* and empty
ValidationMonths == {Undef, Num(3), Str(<< >>)}
ValidationYears == {Undef, Num(2025)}
ValidationIdLists == {NoIds, Ids({}), Ids({1})}
ValidationPeriods == {Undef, Str(<<"3">>)}
ValidationYearQueries == {Undef, Str(<<"2", "0", "2", "5">>)}
ValidationKeys == {"currency"}
ValidationValues == {Undef, Str(<< >>), Str(<<"B", "D", "T">>)}

\* one request at a time: every handler that validates its parameters
ValidationNext ==
  \/ \E r \in SeqReqs, body \in ConcCreateBodies : CreateEmployee(r, body)
  \/ \E r \in SeqReqs, m \in ValidationMonths, y \in ValidationYears :
       ProcessPayrollStart(r, m, y, NoIds)
  \/ \E r \in SeqReqs : ProcessPayrollCheck(r)
  \/ \E r \in SeqReqs : ProcessPayrollCreate(r)
  \/ \E r \in SeqReqs, ids \in ValidationIdLists : BulkMarkAsPaid(r, ids)
  \/ \E r \in SeqReqs, key \in ValidationKeys, value \in ValidationValues :
       PutSetting(r, key, value)
  \/ \E r \in SeqReqs : PutSettingWrite(r)
  \/ \E r \in SeqReqs, m \in ValidationPeriods, y \in ValidationYearQueries :
       GetSalaryReportByType(r, m, y)
  \/ \E r \in SeqReqs, m \in ValidationPeriods, y \in ValidationYearQueries :
       GetDepartmentReport(r, m, y)
  \/ \E r \in SeqReqs, m \in ValidationPeriods, y \in ValidationYearQueries :
       GetDesignationReport(r, m, y)
  \/ \E r \in SeqReqs, year \in ValidationYearQueries : GetMonthlySummaryStart(r, year)
  \/ \E r \in SeqReqs : GetMonthlySummaryMonth(r)
  \/ \E r \in SeqReqs, year \in ValidationYearQueries : GetYearlyComparisonStart(r, year)
  \/ \E r \in SeqReqs : GetYearlyComparisonMonth(r)
  \/ \E r \in SeqReqs : Respond(r)
  \/ Tick

SpecValidation == Init /\ [][ValidationNext]_vars

\* the requests of the contact specification: the two employees, a second
\* employee with the email or the phone of the first, and updates that take
\* the name, the email or the phone of the first
ContactCreateBodies ==
  {As("e1", BodyOf(SeedProfessor)),
   As("e2", StaffBodyOf(SeedStaff)),
   [As("e2", StaffBodyOf(SeedStaff)) EXCEPT !.email = Some(EmailOf("e1"))],
   [As("e2", StaffBodyOf(SeedStaff)) EXCEPT !.phone = Some(PhoneOf("e1"))]}
ContactUpdateBodies ==
  {[NoBody EXCEPT !.name = Some(NameOf("e1"))],
   [NoBody EXCEPT !.email = Some(EmailOf("e1"))],
   [NoBody EXCEPT !.phone = Some(PhoneOf("e1")), !.section = Some("Library")],
   [NoBody EXCEPT !.email = Some(<<"d", "@", "w">>), !.phone = Some(<< >>)]}

\* two clients of the employee routes
ContactNext ==
  \/ \E r \in Reqs, body \in ContactCreateBodies : CreateEmployee(r, body)
  \/ \E r \in Reqs, id \in EmpIds, body \in ContactUpdateBodies :
       UpdateEmployeeFind(r, id, body)
  \/ \E r \in Reqs : UpdateEmployeeUpdate(r)
  \/ \E r \in Reqs : UpdateEmployeeRefetch(r)
  \/ \E r \in Reqs : Respond(r)

SpecContact == Init /\ [][ContactNext]_vars

\* the periods the summaries are asked for
SummaryMonths == {Undef, Str(<<"3">>)}
SummaryYears == {Str(<<"2", "0", "2", "5">>)}

\* the client that writes while the other reads
Writers == Reqs \ SeqReqs

\* a summary or the dashboard of one client while the payrolls of the period
\* are processed, paid and deleted by another
SummaryNext ==
  \/ \E r \in Writers, body \in ConcCreateBodies : CreateEmployee(r, body)
  \/ \E r \in Writers, m \in ConcMonths, y \in ConcYears :
       ProcessPayrollStart(r, m, y, NoIds)
  \/ \E r \in Writers : ProcessPayrollCheck(r)
  \/ \E r \in Writers : ProcessPayrollCreate(r)
  \/ \E r \in Writers, id \in PayrollIds : MarkPayrollAsPaidFind(r, id)
  \/ \E r \in Writers : MarkPayrollAsPaidUpdate(r)
  \/ \E r \in Writers, ids \in ConcPayrollIdLists : BulkMarkAsPaid(r, ids)
  \/ \E r \in Writers, id \in PayrollIds : DeletePayrollFind(r, id)
  \/ \E r \in Writers : DeletePayrollDelete(r)
  \/ \E r \in SeqReqs, m \in SummaryMonths, y \in SummaryYears :
       GetPayrollSummaryStart(r, m, y)
  \/ \E r \in SeqReqs, which \in SummaryQueries : GetPayrollSummaryQuery(r, which)
  \/ \E r \in SeqReqs : GetDashboardStatsStart(r)
  \/ \E r \in SeqReqs, which \in EmployeeQueries : GetDashboardStatsEmployees(r, which)
  \/ \E r \in SeqReqs : GetDashboardStatsPayroll(r)
  \/ \E r \in Reqs : Respond(r)

SpecSummary == Init /\ [][SummaryNext]_vars

\* employees created and deleted while processPayroll requests run
CascadeNext ==
  \/ \E r \in Reqs, m \in ConcMonths, y \in ConcYears :
       ProcessPayrollStart(r, m, y, NoIds)
  \/ \E r \in Reqs : ProcessPayrollCheck(r)
  \/ \E r \in Reqs : ProcessPayrollCreate(r)
  \/ \E r \in Reqs, body \in RaceCreateBodies : CreateEmployee(r, body)
  \/ \E r \in Reqs, id \in EmpIds : DeleteEmployeeFind(r, id)
  \/ \E r \in Reqs : DeleteEmployeeDelete(r)
  \/ \E r \in Reqs : Respond(r)

SpecCascade == Init /\ [][CascadeNext]_vars

\* the requests of the report specification
ReportYears == {Num(2025), Num(2024)}
ReportYearQueries == {Undef, Str(<<"2", "0", "2", "5">>), Str(<<"x">>)}

ReportMonthQueries == {Undef, Str(<<"3">>), Str(<<"x">>)}
\* a teacher handed to EmployeeService.createEmployee with and without its
\* nested `teacher` object
ReportServiceData ==
  {ServiceData(As("e2", BodyOf(Indebted)), {}),
   ServiceData([As("e2", BodyOf(Indebted)) EXCEPT
                                        !.department = Some("Physics")], {"TEACHER"})}

\* one request at a time: employees, processing and the reports
ReportNext ==
  \/ \E r \in SeqReqs, m \in RaceMonths, y \in ReportYears, ids \in RaceIdLists :
       ProcessPayrollStart(r, m, y, ids)
  \/ \E r \in SeqReqs : ProcessPayrollCheck(r)
  \/ \E r \in SeqReqs : ProcessPayrollCreate(r)
  \/ \E r \in SeqReqs, body \in RaceCreateBodies : CreateEmployee(r, body)
  \/ \E r \in SeqReqs, year \in ReportYearQueries : GetMonthlySummaryStart(r, year)
  \/ \E r \in SeqReqs : GetMonthlySummaryMonth(r)
  \/ \E r \in SeqReqs, year \in ReportYearQueries : GetYearlyComparisonStart(r, year)
  \/ \E r \in SeqReqs : GetYearlyComparisonMonth(r)
  \/ \E r \in SeqReqs, data \in ReportServiceData : ServiceCreateEmployee(r, data)
  \/ \E r \in SeqReqs, m \in ReportMonthQueries, y \in ReportYearQueries :
       GetSalaryReportByType(r, m, y)
  \/ \E r \in SeqReqs, m \in ReportMonthQueries, y \in ReportYearQueries :
       GetDepartmentReport(r, m, y)
  \/ \E r \in SeqReqs, m \in ReportMonthQueries, y \in ReportYearQueries :
       GetDesignationReport(r, m, y)
  \/ \E r \in SeqReqs : Respond(r)

SpecReport == Init /\ [][ReportNext]_vars

\* the requests of the yearly specification: months in and out of the
\* calendar, two years
YearMonths == {Num(3), Num(12), Num(13)}
YearQueries == {Undef, Str(<<"2", "0", "2", "5">>)}

\* one request at a time: employees, processing and the yearly comparison
YearNext ==
  \/ \E r \in SeqReqs, body \in RaceCreateBodies : CreateEmployee(r, body)
  \/ \E r \in SeqReqs, m \in YearMonths, y \in ReportYears :
       ProcessPayrollStart(r, m, y, NoIds)
  \/ \E r \in SeqReqs : ProcessPayrollCheck(r)
  \/ \E r \in SeqReqs : ProcessPayrollCreate(r)
  \/ \E r \in SeqReqs, year \in YearQueries : GetYearlyComparisonStart(r, year)
  \/ \E r \in SeqReqs : GetYearlyComparisonMonth(r)
  \/ \E r \in SeqReqs : Respond(r)

SpecYear == Init /\ [][YearNext]_vars

\* the calls of the service specification
ServiceNumMonths == {3}
ServiceNumYears == {2025}
ServiceCreateData ==
  {ServiceData(As("e1", BodyOf(SeedProfessor)), {"TEACHER"}),
   ServiceData(As("e1", BodyOf(SeedProfessor)), {}),
   ServiceData(As("e2", StaffBodyOf(SeedStaff)), {"TEACHER", "STAFF"})}
ServiceUpdateData ==
  {ServiceData([NoBody EXCEPT !.basicSalary = Some(0)], {}),
   ServiceData([NoBody EXCEPT !.employeeType = Some("TEACHER"),
                              !.faculty = Some("Science"),
                              !.department = Some("Physics")], {"TEACHER"})}
ServiceStatuses == {"PENDING", "PAID", "VOID"}

\* one call at a time: the handlers and EmployeeService
ServiceNext ==
  \/ \E r \in SeqReqs, body \in RaceCreateBodies : CreateEmployee(r, body)
  \/ \E r \in SeqReqs, id \in EmpIds, body \in ConcUpdateBodies :
       UpdateEmployeeFind(r, id, body)
  \/ \E r \in SeqReqs : UpdateEmployeeUpdate(r)
  \/ \E r \in SeqReqs : UpdateEmployeeRefetch(r)
  \/ \E r \in SeqReqs, data \in ServiceCreateData : ServiceCreateEmployee(r, data)
  \/ \E r \in SeqReqs, id \in EmpIds, data \in ServiceUpdateData :
       ServiceUpdateEmployee(r, id, data)
  \/ \E r \in SeqReqs : Respond(r)

SpecService == Init /\ [][ServiceNext]_vars

\* one call at a time: the payroll handlers and PayrollService
PayrollServiceNext ==
  \/ \E r \in SeqReqs, body \in RaceCreateBodies : CreateEmployee(r, body)
  \/ \E r \in SeqReqs, m \in ConcMonths, y \in ConcYears :
       ProcessPayrollStart(r, m, y, NoIds)
  \/ \E r \in SeqReqs : ProcessPayrollCheck(r)
  \/ \E r \in SeqReqs : ProcessPayrollCreate(r)
  \/ \E r \in SeqReqs, id \in EmpIds, m \in ServiceNumMonths, y \in ServiceNumYears :
       ServiceProcessPayrollFind(r, id, m, y)
  \/ \E r \in SeqReqs : ServiceProcessPayrollEmployee(r)
  \/ \E r \in SeqReqs, m \in ServiceNumMonths, y \in ServiceNumYears :
       ServiceProcessMonthlyStart(r, m, y)
  \/ \E r \in SeqReqs : ServiceProcessMonthlyFind(r)
  \/ \E r \in SeqReqs : ServiceProcessMonthlyEmployee(r)
  \/ \E r \in SeqReqs, id \in PayrollIds : MarkPayrollAsPaidFind(r, id)
  \/ \E r \in SeqReqs : MarkPayrollAsPaidUpdate(r)
  \/ \E r \in SeqReqs, id \in PayrollIds, st \in ServiceStatuses :
       ServiceUpdatePayrollStatus(r, id, st)
  \/ \E r \in SeqReqs : Respond(r)
  \/ Tick

SpecPayrollService == Init /\ [][PayrollServiceNext]_vars

\* the requests of the settings specification
SettingKeys == {"currency", "payDay"}
SettingValues == {Undef, Str(<< >>), Str(<<"B", "D", "T">>), Str(<<"2", "5">>), Num(25)}

\* two clients of the settings routes
SettingsNext ==
  \/ \E r \in Reqs : GetSettings(r)
  \/ \E r \in Reqs, key \in SettingKeys : GetSetting(r, key)
  \/ \E r \in Reqs, key \in SettingKeys, value \in SettingValues :
       PutSetting(r, key, value)
  \/ \E r \in Reqs : PutSettingWrite(r)
  \/ \E r \in Reqs : Respond(r)

SpecSettings == Init /\ [][SettingsNext]_vars

\* the months of the period specification: in and out of the calendar
PeriodMonths == {Num(12), Num(13), Str(<<"1", "3">>), Num(0), Num(-1)}

\* one client that processes periods of any month
PeriodNext ==
  \/ \E r \in SeqReqs, body \in RaceCreateBodies : CreateEmployee(r, body)
  \/ \E r \in SeqReqs, m \in PeriodMonths, y \in ConcYears :
       ProcessPayrollStart(r, m, y, NoIds)
  \/ \E r \in SeqReqs : ProcessPayrollCheck(r)
  \/ \E r \in SeqReqs : ProcessPayrollCreate(r)
  \/ \E r \in SeqReqs : Respond(r)

SpecPeriod == Init /\ [][PeriodNext]_vars

(***************************************************************************)
(* Properties.                                                             *)
(***************************************************************************)
SameTriple(p, q) ==
  p.employeeId = q.employeeId /\ p.month = q.month /\ p.year = q.year

\* C1: in every reachable state, whatever requests interleave, there is at
\* most one Payroll record for each (employeeId, month, year).
C1_UniquePerTriple ==
  \A p \in payroll, q \in payroll : SameTriple(p, q) => p = q

\* C1 happens: a request lost the race for a triple and the store refused
\* its create while the winner's record is stored
C1_Witness ==
  \E r \in Reqs :
    \E err \in req[r].errors :
      /\ err.message = ErrUnique
      /\ \E p \in payroll : p.employeeId = err.employeeId

\* the eleven compensation fields of row p are those of row e
SameSalary(p, e) == \A f \in SalaryFields : p[f] = e[f]

\* gross and net as the specification defines them
GrossNetExact(p) ==
  /\ p.grossSalary = p.basicSalary + p.houseRent + p.medical + p.transport
                       + p.education + p.special
  /\ p.netSalary = p.grossSalary
                     - (p.tax + p.providentFund + p.insurance + p.loan + p.other)

\* C2: every Payroll record has gross = basic + the five allowances and
\* net = gross - the five deductions; a record processPayroll created holds
\* the employee's basic salary, allowances and deductions as they are while
\* the request is processed; the seeded professor (80000; 20000, 5000, 3000,
\* 2000, 5000; 12000, 8000, 2000, 0, 0) gets gross 115000 and net 93000.
C2_SnapshotAndSums ==
  /\ \A p \in payroll :
       /\ GrossNetExact(p)
       /\ SameSalary(p, SeedProfessor) => p.grossSalary = 115000 /\ p.netSalary = 93000
  /\ \A r \in Reqs : \A p \in req[r].processed :
       /\ p \in payroll
       /\ \E e \in employee : e.id = p.employeeId /\ SameSalary(p, e)

\* C2 happens: a request has created the professor's record and the record
\* of an employee whose deductions exceed the gross salary
C2_Witness ==
  \E r \in Reqs :
    /\ \E p \in req[r].processed : SameSalary(p, SeedProfessor) /\ p.netSalary = 93000
    /\ \E p \in req[r].processed : p.netSalary < 0

\* the employees a processPayroll request with `ids` selects from the table:
\* the ACTIVE ones, among `ids` when a list of identifiers is supplied
SelectionIds(ids) ==
  {e.id : e \in {x \in employee :
                   /\ x.status = "ACTIVE"
                   /\ (ids.given /\ ids.set # {}) => x.id \in ids.set}}

NumericPeriod(q) == ~parseInt(q.month).nan /\ ~parseInt(q.year).nan

C3_SecondCall ==
  \A r \in repeat :
    LET q == req[r]
    IN NumericPeriod(q) =>
         /\ q.processed = {}
         /\ q.pc # "create"
         /\ \A err \in q.errors : err.message = AlreadyProcessed
         /\ q.pc = "done" =>
              /\ q.status \in {201, 404}
              /\ {err.employeeId : err \in q.errors} = SelectionIds(q.ids)

C3_Frame == (repeat' # {}) => payroll' = payroll

\* C3: when processPayroll(month, year) is sent again right after its answer,
\* with no other request in between, the second call creates no record,
\* reports every selected employee in errors as already processed, and
\* leaves the Payroll records as the first call left them.
C3_Idempotent == []C3_SecondCall /\ [][C3_Frame]_vars

\* C3 happens: the second call has answered, two employees skipped
C3_Witness ==
  \E r \in repeat :
    /\ req[r].pc = "done"
    /\ req[r].status = 201
    /\ Cardinality(req[r].errors) = 2
    /\ Cardinality(payroll) = 2

\* a processPayroll request starts in slot r at this step
C8_Begins(r) ==
  /\ req'[r].op = "processPayroll"
  /\ \/ req[r].pc = "idle"
     \/ req[r].pc = "done" /\ r \in repeat' /\ r \notin repeat

C8_Step ==
  \A r \in Reqs :
    (/\ C8_Begins(r)
     /\ Truthy(req'[r].month) /\ Truthy(req'[r].year)
     /\ SelectionIds(req'[r].ids) = {})
    => /\ req'[r].pc = "done"
       /\ req'[r].status = 404
       /\ req'[r].processed = {}
       /\ payroll' = payroll

ProcessedIds(q) == {p.employeeId : p \in q.processed}
ErrorIds(q) == {err.employeeId : err \in q.errors}
Conflicts == {AlreadyProcessed, ErrUnique}

\* the records stored for employee id in the period of request q
StoredFor(id, q) ==
  {p \in payroll : /\ p.employeeId = id
                   /\ p.month = parseInt(q.month).n
                   /\ p.year = parseInt(q.year).n}

\* C4: when two processPayroll requests for the same employee and period run
\* together, whatever the order of their existence checks and creates, one
\* record for the triple is stored; at most one request reports the employee
\* as processed, its record is the stored one, and the other request reports
\* a conflict for the employee.
C4_OneWinner ==
  \A r1 \in Reqs, r2 \in Reqs :
    (/\ r1 # r2
     /\ req[r1].op = "processPayroll" /\ req[r2].op = "processPayroll"
     /\ req[r1].pc = "done" /\ req[r2].pc = "done"
     /\ parseInt(req[r1].month) = parseInt(req[r2].month)
     /\ parseInt(req[r1].year) = parseInt(req[r2].year))
    => \A id \in {e.id : e \in req[r1].employees} \cap {e.id : e \in req[r2].employees} :
         /\ Cardinality(StoredFor(id, req[r1])) = 1
         /\ ~(id \in ProcessedIds(req[r1]) /\ id \in ProcessedIds(req[r2]))
         /\ \A p \in req[r1].processed : p.employeeId = id => p \in payroll
         /\ id \notin ProcessedIds(req[r1]) =>
              \E err \in req[r1].errors :
                err.employeeId = id /\ err.message \in Conflicts

\* C4 happens: both requests passed the existence check, one created the
\* record and the store refused the other's create
C4_Witness ==
  \E r1 \in Reqs, r2 \in Reqs :
    /\ req[r1].pc = "done" /\ req[r2].pc = "done"
    /\ \E p \in req[r1].processed :
         /\ p \in payroll
         /\ [employeeId |-> p.employeeId, message |-> ErrUnique] \in req[r2].errors

C9_Result ==
  \A r \in Reqs :
    LET q == req[r]
    IN (q.op = "processPayroll" /\ q.pc = "done" /\ q.status = 201) =>
         /\ ProcessedIds(q) \cup ErrorIds(q) = {e.id : e \in q.employees}
         /\ ProcessedIds(q) \cap ErrorIds(q) = {}
         /\ Cardinality(q.processed) = Cardinality(ProcessedIds(q))
         /\ Cardinality(q.errors) = Cardinality(ErrorIds(q))
         /\ q.employees # {}
         /\ \A p \in q.processed : p \in payroll
         /\ \A id \in ErrorIds(q) : StoredFor(id, q) # {}

C9_Step ==
  \A r \in Reqs :
    (req'[r].op = "processPayroll" /\ req'[r] # req[r]) =>
      /\ req'[r].processed \ req[r].processed = payroll' \ payroll
      /\ payroll \subseteq payroll'

\* C9: a processPayroll call with a non-empty selection answers with two
\* lists in which every selected employee appears exactly once; an employee
\* is in `processed` exactly when the call created a Payroll for them; a skip
\* or a refused create for one employee neither stops the loop nor undoes
\* the records the call already created.
C9_Partition == []C9_Result /\ [][C9_Step]_vars

\* C9 happens: the call lost one employee to a refused create and processed
\* another
C9_Witness ==
  \E r \in Reqs :
    /\ req[r].op = "processPayroll" /\ req[r].pc = "done"
    /\ req[r].processed # {}
    /\ \E err \in req[r].errors : err.message = ErrUnique

\* the records with identifier id
Stored(id) == {p \in payroll : p.id = id}

Paid(p, t) == [p EXCEPT !.status = "PAID", !.paidAt = t]

C5_Step ==
  \A r \in Reqs :
    /\ (req[r].pc = "idle" /\ req'[r].op = "markPayrollAsPaid") =>
         /\ payroll' = payroll
         /\ (\E p \in Stored(req'[r].pid) : p.status = "PAID") =>
              req'[r].pc = "done" /\ req'[r].status = 400
         /\ (\E p \in Stored(req'[r].pid) : p.status = "PENDING") =>
              req'[r].pc = "update"
    /\ (req[r].op = "markPayrollAsPaid" /\ req[r].pc = "update" /\ req'[r].pc = "done") =>
         \E p \in Stored(req[r].pid) :
           /\ p.status = "PENDING"
           /\ now # NULL
           /\ payroll' = (payroll \ {p}) \cup {Paid(p, now)}
           /\ req'[r].status = 200

\* C5: markPayrollAsPaid on a PENDING record sets its status to PAID and its
\* paidAt to the current time; on a record that is already PAID it answers
\* AlreadyPaid (400) and leaves every record, the paidAt included, as it was.
C5_MarkAsPaid == [][C5_Step]_vars

\* C5 happens: a record paid at time 1 was targeted again at time 2 and the
\* request was refused
C5_Witness ==
  \E r \in Reqs :
    /\ req[r].op = "markPayrollAsPaid"
    /\ req[r].status = 400
    /\ now = 2
    /\ \E p \in Stored(req[r].pid) : p.status = "PAID" /\ p.paidAt = 1

C7_Step ==
  \A r \in Reqs :
    (/\ req[r].pc = "idle"
     /\ req'[r].op = "bulkMarkAsPaid"
     /\ req'[r].ids.given /\ req'[r].ids.set # {}) =>
      LET hit == {p \in payroll : p.id \in req'[r].ids.set /\ p.status = "PENDING"}
      IN /\ payroll' = (payroll \ hit) \cup {Paid(p, now) : p \in hit}
         /\ req'[r].pc = "done"
         /\ req'[r].status = 200
         /\ req'[r].count = Cardinality(hit)

\* C7: bulkMarkAsPaid with a non-empty list turns exactly the listed records
\* that exist and are PENDING into PAID, all with the same paidAt, answers
\* with their number as updatedCount, reports no error for a missing or an
\* already PAID id, and leaves every other record as it was.
C7_BulkMarkAsPaid == [][C7_Step]_vars

\* C7 happens: of two listed records one was paid earlier and kept its
\* paidAt, the other was paid by the bulk request
C7_Witness ==
  \E r \in Reqs :
    /\ req[r].op = "bulkMarkAsPaid"
    /\ req[r].status = 200
    /\ req[r].count = 1
    /\ \E p \in payroll : p.id \in req[r].ids.set /\ p.paidAt = 1
    /\ \E p \in payroll : p.id \in req[r].ids.set /\ p.paidAt = 2

C6_Step ==
  /\ \A p \in payroll : \A p2 \in payroll' :
       (p.id = p2.id /\ p.status = "PAID") => p2 = p
  /\ \A r \in Reqs :
       (/\ req[r].op = "markPayrollAsPaid" /\ req[r].pc = "update"
        /\ req'[r].pc = "done" /\ req'[r].status = 200)
       => \E p \in Stored(req[r].pid) : p.status = "PENDING"

\* C6: a record goes from PENDING to PAID once: whatever single and bulk
\* mark-as-paid requests interleave, a PAID record's paidAt is never written
\* again, and a single request that is answered 200 is the one that made the
\* transition (every other one is refused with AlreadyPaid).
C6_PaidExactlyOnce == [][C6_Step]_vars

C10_Step ==
  \A r \in Reqs :
    /\ (req'[r].op = "updateEmployee" /\ req'[r] # req[r]) => payroll' = payroll
    /\ (req'[r].op = "processPayroll" /\ req'[r] # req[r]) => payroll \subseteq payroll'

\* C10: an updateEmployee request, whatever it changes, leaves every Payroll
\* record as it was, and a processPayroll request never changes a record that
\* exists (an already processed period is not refreshed).
C10_PointInTime == [][C10_Step]_vars

\* C10 happens: the employee's salary was changed after the record was
\* created, and a later processPayroll skipped the employee
C10_Witness ==
  \E r \in Reqs :
    /\ req[r].op = "processPayroll"
    /\ \E err \in req[r].errors :
         /\ err.message = AlreadyProcessed
         /\ \E p \in payroll, e \in req[r].employees :
              /\ p.employeeId = err.employeeId
              /\ e.id = err.employeeId
              /\ e.basicSalary # p.basicSalary

ListOps == {"getAllPayrolls", "getAllEmployees", "PayrollService.getAllPayrolls"}

\* the page p and the limit l of a listing request, 1 and 10 when absent
PageOf(q) == parseInt(OrDefault(q.query.page, Num(1)))
LimitOf(q) == parseInt(OrDefault(q.query.limit, Num(10)))

\* the filtered result set of a listing request, in the orders it may have
ResultSets(q) ==
  IF q.op = "getAllEmployees"
    THEN OrderedBy({e \in employee : EmployeeMatches(e, q.query)}, EmployeeBefore)
    ELSE OrderedBy({x \in payroll : PayrollMatches(x, q.query)}, PayrollBefore)

\* the response of request q is page p of limit l of the result set
PageOfResult(q, p, l) ==
  /\ q.status = 200
  /\ \E all \in ResultSets(q) :
       /\ \A i \in 1..Len(q.rows) :
            /\ (p - 1) * l + i \in 1..Len(all)
            /\ q.rows[i] = all[(p - 1) * l + i]
       /\ Len(q.rows) =
            Cardinality({k \in 0..(Len(all) - 1) : (p - 1) * l <= k /\ k <= p * l - 1})
       /\ q.data.total = Len(all)
  /\ ~q.data.totalPages.nan
  /\ q.data.totalPages.n * l >= q.data.total
  /\ (q.data.totalPages.n - 1) * l < q.data.total

\* C19 as stated: every listing request with a page p and a limit l is
\* answered with the records at positions (p-1)*l .. p*l-1 of the filtered,
\* ordered result set, with total the number of records the filter matches
\* and totalPages = ceil(total / l).
C19_EveryPageAndLimit ==
  \A r \in Reqs :
    LET q == req[r]
    IN (q.op \in ListOps /\ q.pc = "done" /\ ~PageOf(q).nan /\ ~LimitOf(q).nan)
         => PageOfResult(q, PageOf(q).n, LimitOf(q).n)

\* C19, amended: the same for every listing request whose page p and limit l
\* are at least 1 (page 0 makes the store refuse the negative skip, limit 0
\* makes totalPages a division by zero).
C19_Pagination ==
  \A r \in Reqs :
    LET q == req[r]
    IN (/\ q.op \in ListOps /\ q.pc = "done"
        /\ ~PageOf(q).nan /\ ~LimitOf(q).nan
        /\ PageOf(q).n >= 1 /\ LimitOf(q).n >= 1)
         => PageOfResult(q, PageOf(q).n, LimitOf(q).n)

\* C19 happens: the second page of one record out of two, and a listing
\* without page and limit that returned both records
C19_Witness ==
  \E r \in Reqs :
    /\ req[r].op = "getAllPayrolls" /\ req[r].pc = "done"
    /\ PageOf(req[r]).n = 2 /\ LimitOf(req[r]).n = 1
    /\ Len(req[r].rows) = 1
    /\ req[r].data.total = 2
    /\ req[r].data.totalPages.n = 2

\* what deleting employee e leaves of a table that references employees:
\* no row of e, every other row as it was
WithoutEmployee(before, after, e) ==
  /\ \A x \in after : x.employeeId # e /\ x \in before
  /\ \A x \in before : x.employeeId # e => x \in after

C11_Step ==
  \A r \in Reqs :
    (/\ req[r].op = "deleteEmployee" /\ req[r].pc = "delete"
     /\ req'[r].pc = "done" /\ req'[r].status = 200)
    => LET e == req[r].eid
       IN /\ WithoutEmployee(payroll, payroll', e)
          /\ WithoutEmployee(teacher, teacher', e)
          /\ WithoutEmployee(officer, officer', e)
          /\ WithoutEmployee(staff, staff', e)
          /\ \A x \in employee' : x.id # e
          /\ {p \in payroll' :
                PayrollMatches(p, [NoQuery EXCEPT !.employeeId = Some(e)])} = {}

\* C11: when deleteEmployee(e) succeeds, no Payroll record and no teacher,
\* officer or staff extension of e is left, so the payroll listing filtered
\* by employeeId = e is empty, and the Payroll records and extensions of
\* every other employee are as they were.
C11_DeleteCascades == [][C11_Step]_vars

\* C11 happens: a request created the records of two employees, one of the
\* two was deleted with its record and its teacher extension, and the other
\* kept its record and its staff extension
C11_Witness ==
  \E r \in Reqs, d \in Reqs :
    /\ req[d].op = "deleteEmployee" /\ req[d].status = 200
    /\ req[r].op = "processPayroll" /\ req[r].pc = "done"
    /\ \E p \in req[r].processed : p.employeeId = req[d].eid /\ p \notin payroll
    /\ \E p \in req[r].processed : p.employeeId # req[d].eid /\ p \in payroll
    /\ teacher = {}
    /\ \E x \in staff : x.employeeId # req[d].eid

\* the sum of field f over the records of S, record by record in the order
\* of their identifiers up to id
RECURSIVE TotalUpTo(_, _, _)
TotalUpTo(S, f, id) ==
  IF id = 0 THEN 0
  ELSE TotalUpTo(S, f, id - 1)
         + (IF \E p \in S : p.id = id THEN (CHOOSE p \in S : p.id = id)[f] ELSE 0)

Total(S, f) == TotalUpTo(S, f, nextId)

\* the count and the three sums of a monthly entry, under the names the two
\* handlers give them
MonthlyCount(q, m) ==
  IF q.op = "getMonthlySummary" THEN q.rows[m].totalEmployees ELSE q.rows[m].employeeCount
MonthlyBasic(q, m) ==
  IF q.op = "getMonthlySummary" THEN q.rows[m].totalBasic ELSE q.rows[m].totalBasicSalary
MonthlyGross(q, m) ==
  IF q.op = "getMonthlySummary" THEN q.rows[m].totalGross ELSE q.rows[m].totalGrossSalary
MonthlyNet(q, m) ==
  IF q.op = "getMonthlySummary" THEN q.rows[m].totalNet ELSE q.rows[m].totalNetSalary

\* C12: for every year and every stored set of Payroll records,
\* getMonthlySummary and getYearlyComparison answer with exactly 12 entries,
\* month = 1, 2, ..., 12 in that order; the entry of month m carries the
\* number and the summed basic, gross and net salary of exactly the records
\* of (m, year), zeros when there are none.
C12_TwelveMonths ==
  \A r \in Reqs :
    LET q == req[r]
    IN (q.op \in {"getMonthlySummary", "getYearlyComparison"} /\ q.pc = "done"
        /\ ~parseInt(q.year).nan)
       => /\ q.status = 200
          /\ Len(q.rows) = 12
          /\ \A m \in 1..12 :
               LET of == {p \in payroll : p.month = m /\ p.year = parseInt(q.year).n}
               IN /\ q.rows[m].month = m
                  /\ MonthlyCount(q, m) = Cardinality(of)
                  /\ MonthlyBasic(q, m) = Total(of, "basicSalary")
                  /\ MonthlyGross(q, m) = Total(of, "grossSalary")
                  /\ MonthlyNet(q, m) = Total(of, "netSalary")
                  /\ of = {} => /\ MonthlyCount(q, m) = 0 /\ MonthlyBasic(q, m) = 0
                                /\ MonthlyGross(q, m) = 0 /\ MonthlyNet(q, m) = 0

\* C12 happens: the report of 2025 counts the professor's record in March
\* and none in April, where there is a record of April 2024
C12_Witness ==
  \E r \in Reqs :
    /\ req[r].op = "getYearlyComparison" /\ req[r].pc = "done"
    /\ req[r].status = 200
    /\ req[r].rows[3].employeeCount = 1
    /\ req[r].rows[3].totalNetSalary = 93000
    /\ req[r].rows[4].employeeCount = 0
    /\ \E p \in payroll : p.month = 4 /\ p.year = 2024

PeriodReports == {"getSalaryReportByType", "getDepartmentReport", "getDesignationReport"}

\* the Payroll records a period report fetches
Fetched(q) ==
  LET of == {p \in payroll : /\ p.month = parseInt(q.month).n
                              /\ p.year = parseInt(q.year).n}
  IN IF q.op = "getDepartmentReport"
       THEN {p \in of : \E e \in employee :
                          e.id = p.employeeId /\ e.employeeType = "TEACHER"}
       ELSE of

\* the sum of field f over the groups of a report
RECURSIVE OverGroups(_, _)
OverGroups(rows, f) ==
  IF rows = << >> THEN 0 ELSE Head(rows)[f] + OverGroups(Tail(rows), f)

\* C13: in each period report by employee type, by department and by
\* designation, the totalNetSalary of the groups add up to the netSalary of
\* the Payroll records fetched for the report, and the counts of the groups
\* add up to the number of those records.
C13_TotalsReconcile ==
  \A r \in Reqs :
    LET q == req[r]
    IN (q.op \in PeriodReports /\ q.pc = "done" /\ q.status = 200)
       => /\ OverGroups(q.rows, "totalNetSalary") = Total(Fetched(q), "netSalary")
          /\ OverGroups(q.rows, "count") = Cardinality(Fetched(q))

\* C14: in every state each Employee has exactly the role extension its
\* employeeType selects and no other: a TEACHER has a teacher row and no
\* officer or staff row, and likewise an OFFICER and a STAFF.
C14_ExtensionMatchesType ==
  \A e \in employee :
    /\ (ExtensionOf(teacher, e.id) # {}) <=> (e.employeeType = "TEACHER")
    /\ (ExtensionOf(officer, e.id) # {}) <=> (e.employeeType = "OFFICER")
    /\ (ExtensionOf(staff, e.id) # {}) <=> (e.employeeType = "STAFF")

\* request r's PUT is answered in this step
PutAnswered(r) ==
  /\ req'[r].op = "putSetting" /\ req'[r].pc = "done"
  /\ req[r].pc # "done"

\* request r's GET of a key is answered in this step with the stored value,
\* or with 404 when the key has no setting
GetReturnsStored(r) ==
  (req'[r].op = "getSetting" /\ req'[r].pc = "done" /\ req[r].pc # "done")
  => LET q == req'[r]
         found == SettingByKey(settings, q.key)
     IN /\ UNCHANGED settings
        /\ found = {} => q.status = 404
        /\ found # {} => q.status = 200 /\ \A x \in found : q.value = x.value

\* at most one setting per key
OnePerKey ==
  \A x, y \in settings : x.key = y.key => x = y

\* no key that was written is removed
KeysKept ==
  {x.key : x \in settings} \subseteq {x.key : x \in settings'}

\* the setting of `key` is created or replaced by `value`; the settings of
\* the other keys stay
Upserted(key, value) ==
  /\ \E x \in settings' : SettingByKey(settings', key) = {x} /\ x.value = value
  /\ \A x \in SettingByKey(settings, key) :
       SettingByKey(settings', key) = {[x EXCEPT !.value = value]}
  /\ {x \in settings' : x.key # key} = {x \in settings : x.key # key}

\* C15 as stated: every PUT of (key, value) creates the setting when the
\* key is absent and replaces its value otherwise; a GET of the key returns
\* the stored value; there is at most one setting per key in every state,
\* concurrent PUTs of one key included; no step removes a key.
C15_EveryPutWrites ==
  [][/\ \A r \in Reqs : PutAnswered(r) => Upserted(req'[r].key, req'[r].value)
     /\ \A r \in Reqs : GetReturnsStored(r)
     /\ OnePerKey'
     /\ KeysKept]_vars

\* C15, amended: a PUT of (key, value) with a non-empty string value that
\* is answered 200 creates the setting when the key is absent and replaces
\* its value otherwise; a PUT without a value or with an empty one is
\* answered 400, one with a value that is not a string 500, and a PUT whose
\* insert lost the race for a new key 500, and these leave the settings
\* alone; a GET of the key returns the stored value; there is at most one
\* setting per key in every state, concurrent PUTs of one key included; no
\* step removes a key.
C15_Upsert ==
  [][/\ \A r \in Reqs :
          PutAnswered(r) =>
            LET q == req'[r]
            IN /\ q.status \in {200, 400, 500}
               /\ q.status = 200 => Upserted(q.key, q.value)
               /\ q.status # 200 => UNCHANGED settings
               /\ q.status = 400 <=> ~Truthy(q.value)
               /\ q.status = 500 =>
                    \/ Truthy(q.value) /\ q.value.k # "str"
                    \/ /\ req[r].pc = "write" /\ req[r].count = 0
                       /\ SettingByKey(settings, q.key) # {}
     /\ \A r \in Reqs : GetReturnsStored(r)
     /\ OnePerKey'
     /\ KeysKept]_vars

\* C15 happens: two PUTs of one key with different values were both
\* answered 200 and the key has one setting, with one of the two values
C15_Witness ==
  \E r1, r2 \in Reqs :
    /\ r1 # r2
    /\ req[r1].op = "putSetting" /\ req[r1].pc = "done" /\ req[r1].status = 200
    /\ req[r2].op = "putSetting" /\ req[r2].pc = "done" /\ req[r2].status = 200
    /\ req[r1].key = req[r2].key
    /\ req[r1].value # req[r2].value
    /\ \E x \in settings :
         /\ SettingByKey(settings, req[r1].key) = {x}
         /\ x.value \in {req[r1].value, req[r2].value}

\* the Payroll records created in this step
Created == {p \in payroll' : p.id \notin {x.id : x \in payroll}}

\* the processPayroll request that creates record p in this step, and the
\* employee row it fetched for it
Creates(r, p) ==
  /\ req[r].op = "processPayroll" /\ req[r].pc = "create"
  /\ p \in req'[r].processed
  /\ \E e \in req[r].cur : e \in req[r].employees /\ e.id = p.employeeId

\* C16 as stated: processPayroll creates Payroll records only for employees
\* whose status is ACTIVE and, whenever a set S of employeeIds is supplied,
\* the empty set included, only for employees in S; an INACTIVE employee
\* receives no Payroll even when listed in S.
C16_OnlyActiveInAnyS ==
  [][\A p \in Created :
       \E r \in Reqs :
         /\ Creates(r, p)
         /\ \A e \in employee : e.id = p.employeeId => e.status = "ACTIVE"
         /\ req[r].ids.given => p.employeeId \in req[r].ids.set]_vars

\* C16, amended: processPayroll creates Payroll records only for employees
\* whose status was ACTIVE when the request fetched its employees and,
\* whenever a non-empty set S of employeeIds is supplied, only for employees
\* in S (an empty S counts as no S: every ACTIVE employee is selected); an
\* employee that is INACTIVE at that moment is not selected and receives no
\* Payroll from the request even when listed in S.
C16_OnlyActiveInS ==
  [][/\ \A r \in Reqs :
          C8_Begins(r) =>
            {e.id : e \in req'[r].employees} \subseteq SelectionIds(req'[r].ids)
     /\ \A p \in Created :
          \E r \in Reqs :
            /\ Creates(r, p)
            /\ \A e \in req[r].cur : e.status = "ACTIVE"
            /\ (req[r].ids.given /\ req[r].ids.set # {})
                 => p.employeeId \in req[r].ids.set]_vars

\* C16 happens: a request listing an ACTIVE and an INACTIVE employee has
\* created the record of the ACTIVE one alone
C16_Witness ==
  \E r \in Reqs :
    /\ req[r].op = "processPayroll" /\ req[r].pc = "done"
    /\ req[r].ids = Ids({"e1", "e2"})
    /\ {p.employeeId : p \in req[r].processed} = {"e1"}
    /\ \E e \in employee : e.id = "e2" /\ e.status = "INACTIVE"

ProcessingOps ==
  {"processPayroll", "PayrollService.processPayroll",
   "PayrollService.processMonthlyPayroll"}

\* C17: every Payroll record newly persisted by a processing operation (the
\* processPayroll handler, PayrollService.processPayroll and
\* processMonthlyPayroll) has status PENDING and a null paidAt.  The two
\* service methods throw before their create and persist no record at all.
C17_CreatedPending ==
  [][/\ \A p \in Created : p.status = "PENDING" /\ p.paidAt = NULL
     /\ Created # {} => \E r \in Reqs : req[r].op \in ProcessingOps
     /\ \A r \in Reqs :
          (req'[r].op \in ProcessingOps \ {"processPayroll"} /\ req'[r] # req[r])
            => UNCHANGED payroll]_vars

\* C17 happens: the handler has created a record, PENDING and not stamped,
\* and processMonthlyPayroll has then run over two ACTIVE employees, one
\* with that record and one without, and has persisted nothing
C17_Witness ==
  \E r \in Reqs :
    /\ req[r].op = "PayrollService.processMonthlyPayroll" /\ req[r].pc = "done"
    /\ {err.message : err \in req[r].errors} = {AlreadyProcessed, ErrNoAllowances}
    /\ Cardinality(payroll) = 1
    /\ \A p \in payroll : p.status = "PENDING" /\ p.paidAt = NULL

\* the fields of a Payroll record that C18 speaks of stay as they are for
\* every record that is PAID and is not deleted in this step
PaidStays ==
  \A p \in payroll :
    p.status = "PAID" =>
      \A x \in payroll' : x.id = p.id => x = p

\* C18: once a Payroll record is PAID it is never changed again: no
\* mark-as-paid, bulk-pay, processPayroll, status-update or employee-update
\* step changes its status, its paidAt or a salary field; it stays PAID
\* until it is deleted.
C18_PaidIsFinal == [][PaidStays]_vars

\* request r, a markPayrollAsPaid or a deletePayroll, is answered in this
\* step, in which its record does not exist
AnsweredMissing(r) ==
  /\ req'[r].op \in {"markPayrollAsPaid", "deletePayroll"}
  /\ req'[r].pc = "done" /\ req[r].pc # "done"
  /\ FindById(payroll, req'[r].pid) = {}

\* C20: markPayrollAsPaid and deletePayroll on a Payroll id that does not
\* exist are answered NotFound (404) and leave every stored record as it
\* is, also when the record was deleted by another request between the
\* existence check and the write.
C20_MissingIsNotFound ==
  [][\A r \in Reqs :
       AnsweredMissing(r) => req'[r].status = 404 /\ UNCHANGED payroll]_vars

\* what holds of a missing id: 404 from the existence check, 500 from the
\* write whose record was deleted in between, and no record changes
C20_MissingChangesNothing ==
  [][\A r \in Reqs :
       AnsweredMissing(r) =>
         /\ UNCHANGED payroll
         /\ req'[r].status = IF req[r].pc = "idle" THEN 404 ELSE 500]_vars

\* C21: every stored Payroll record has its month in 1..12, whatever month
\* the processPayroll requests carry.
C21_MonthInCalendar ==
  \A p \in payroll : p.month \in 1..12

\* C22: in every state the paidAt of a Payroll record is null exactly when
\* its status is PENDING, and a time exactly when its status is PAID.
C22_PaidAtAgreesWithStatus ==
  \A p \in payroll :
    /\ p.status \in PayrollStatuses
    /\ (p.paidAt = NULL) <=> (p.status = "PENDING")

\* the records of the report's period whose employee has the designation
OfDesignation(q, designation) ==
  {p \in Fetched(q) : EmployeeOf(p).designation = designation}

\* C23: in the designation report the averageSalary of each group is its
\* totalNetSalary divided by its count, and every group of the report has a
\* count of at least 1, the number of its records, so that no division is
\* by zero; a period without records has a report without groups.
C23_AverageSalary ==
  \A r \in Reqs :
    LET q == req[r]
    IN (q.op = "getDesignationReport" /\ q.pc = "done" /\ q.status = 200)
       => /\ \A i \in DOMAIN q.rows :
               LET g == q.rows[i]
               IN /\ g.count >= 1
                  /\ g.count = Cardinality(OfDesignation(q, g.designation))
                  /\ g.totalNetSalary = Total(OfDesignation(q, g.designation), "netSalary")
                  /\ g.averageSalary.num = g.totalNetSalary
                  /\ g.averageSalary.den = g.count
          /\ Fetched(q) = {} => q.rows = << >>

\* C23 happens: a designation has two records in the period and its average
\* is their total over 2
C23_Witness ==
  \E r \in Reqs :
    /\ req[r].op = "getDesignationReport" /\ req[r].pc = "done"
    /\ req[r].status = 200
    /\ \E i \in DOMAIN req[r].rows :
         /\ req[r].rows[i].count = 2
         /\ req[r].rows[i].averageSalary = Quotient(req[r].rows[i].totalNetSalary, 2)

\* request r's deletePayroll deletes in this step
Deletes(r) ==
  /\ req[r].op = "deletePayroll" /\ req[r].pc = "delete"
  /\ req'[r].pc = "done" /\ req'[r].status = 200

C24_Step ==
  /\ \A r \in Reqs :
       Deletes(r) =>
         /\ \E p \in payroll : p.id = req[r].pid /\ payroll' = payroll \ {p}
         /\ UNCHANGED <<employee, teacher, officer, staff>>
  /\ \A r \in Reqs :
       (req[r].op = "processPayroll" /\ req[r].pc = "check" /\ req'[r] # req[r]
        /\ NumericPeriod(req[r]))
       => \E e \in req[r].todo :
            IF StoredFor(e.id, req[r]) = {}
              THEN req'[r].pc = "create" /\ req'[r].cur = {e}
                   /\ req'[r].errors = req[r].errors
              ELSE req'[r].cur = {} /\ e \notin req'[r].todo
  /\ \A r \in Reqs :
       (req[r].op = "processPayroll" /\ req[r].pc = "create" /\ req'[r] # req[r])
       => \A e \in req[r].cur :
            LET m == parseInt(req[r].month).n
                y == parseInt(req[r].year).n
            IN (StoredFor(e.id, req[r]) = {} /\ EmployeeById(employee, e.id) # {})
               => \E p \in Created :
                    /\ p.employeeId = e.id /\ p.month = m /\ p.year = y
                    /\ p \in req'[r].processed

\* C24: a deletePayroll of an existing record removes that record alone:
\* the Employee rows, the extension rows and every other Payroll record stay
\* as they are; from then on a processPayroll of the same employee and
\* period finds no record, does not skip the employee and creates a new
\* record.
C24_DeleteOneRecord == [][C24_Step]_vars

\* C24 happens: the record of the only employee was deleted, and a later
\* processPayroll has created the record of the same employee and period
\* again, under a new id
C24_Witness ==
  \E r \in Reqs :
    /\ req[r].op = "processPayroll" /\ req[r].pc = "done"
    /\ Cardinality(employee) = 1
    /\ \A p \in payroll : p.id # 1
    /\ req[r].errors = {}
    /\ \E p \in req[r].processed : p \in payroll /\ p.id = 2

\* the term occurs in the text at some position, letter case set aside
Occurs(text, term) ==
  \E k \in 0..(Len(text) - Len(term)) :
    \A i \in 1..Len(term) : Fold(text[k + i]) = Fold(term[i])

\* the employees that satisfy every filter the query supplies
Satisfying(query) ==
  {e \in employee :
     /\ (query.type # None /\ query.type # {""}) => e.employeeType = Val(query.type)
     /\ (query.status # None /\ query.status # {""}) => e.status = Val(query.status)
     /\ (query.search # None /\ query.search # {<< >>}) =>
          \E field \in {e.name, e.email, e.phone} : Occurs(field, Val(query.search))}

EmployeeListed(r) ==
  /\ req[r].op \in {"getAllEmployees", "EmployeeService.getAllEmployees"}
  /\ req[r].pc = "done"
  /\ req[r].status = 200

\* C25: an employee listing counts exactly the employees that satisfy every
\* supplied filter (type AND status AND the search term contained, letter
\* case set aside, in the name OR the email OR the phone), returns only such
\* employees, and returns all of them when one page holds them all.
C25_ListingFilters ==
  \A r \in Reqs :
    EmployeeListed(r) =>
      /\ req[r].data.total = Cardinality(Satisfying(req[r].query))
      /\ \A i \in DOMAIN req[r].rows : req[r].rows[i] \in Satisfying(req[r].query)
      /\ (req[r].query.limit = Undef) =>
           {req[r].rows[i] : i \in DOMAIN req[r].rows} = Satisfying(req[r].query)

\* C25 happens: with two employees stored, a search for "N" was answered
\* with the one employee whose name has an "n", whose email and phone do
\* not hold the term
C25_Witness ==
  \E r \in Reqs :
    /\ EmployeeListed(r)
    /\ Cardinality(employee) = 2
    /\ req[r].query.search = Some(<<"N">>)
    /\ req[r].data.total = 1
    /\ Len(req[r].rows) = 1
    /\ req[r].rows[1].name = <<"A", "n", "n">>
    /\ ~Occurs(req[r].rows[1].email, <<"N">>)
    /\ ~Occurs(req[r].rows[1].phone, <<"N">>)

\* the request lacks a parameter its handler requires
Lacking(q) ==
  \/ q.op = "processPayroll" /\ (q.month = Undef \/ q.year = Undef)
  \/ q.op = "bulkMarkAsPaid" /\ (q.ids = NoIds \/ q.ids = Ids({}))
  \/ q.op = "putSetting" /\ q.value = Undef
  \/ q.op \in PeriodReports /\ (q.month = Undef \/ q.year = Undef)
  \/ q.op \in {"getMonthlySummary", "getYearlyComparison"} /\ q.year = Undef

C26_Step ==
  \A r \in Reqs :
    (req[r].pc = "idle" /\ req'[r].pc # "idle" /\ Lacking(req'[r])) =>
      /\ req'[r].pc = "done"
      /\ req'[r].status = 400
      /\ UNCHANGED <<employee, payroll, teacher, officer, staff, settings, nextId>>

\* C26: a request that lacks a required parameter (processPayroll without
\* month or year, bulkMarkAsPaid with an absent or empty list, a settings PUT
\* without a value, a period report without month or year) is answered with
\* the client error 400 and no stored record changes.
C26_MissingIsRejected == [][C26_Step]_vars

\* C26 happens: with a PENDING record and a setting stored, a bulkMarkAsPaid
\* with an empty list was answered 400 and the record is still PENDING
C26_Witness ==
  \E r \in Reqs :
    /\ req[r].op = "bulkMarkAsPaid"
    /\ req[r].pc = "done"
    /\ req[r].ids = Ids({})
    /\ req[r].status = 400
    /\ settings # {}
    /\ \E p \in payroll : p.id = 1 /\ p.status = "PENDING"

\* no two Employee records have the email or the phone of one another
NoSharedContact(table) ==
  \A e, f \in table : e # f => e.email # f.email /\ e.phone # f.phone

\* the email or the phone the body brings belongs to an employee other
\* than id
Duplicates(body, id) ==
  \E x \in employee :
    /\ x.id # id
    /\ \/ body.email # None /\ body.email # {<< >>} /\ x.email = Val(body.email)
       \/ body.phone # None /\ body.phone # {<< >>} /\ x.phone = Val(body.phone)

\* request r runs the write of a createEmployee or an updateEmployee in
\* this step
WritesEmployee(r) ==
  \/ req[r].pc = "idle" /\ req'[r].op = "createEmployee" /\ req'[r].pc # "idle"
  \/ req[r].op = "updateEmployee" /\ req[r].pc = "update"
       /\ EmployeeById(employee, req[r].eid) # {}

C27_Step ==
  /\ NoSharedContact(employee')
  /\ \A r \in Reqs :
       (WritesEmployee(r) /\ req'[r] # req[r] /\ Duplicates(req'[r].body, req'[r].eid)) =>
         /\ req'[r].pc = "done"
         /\ req'[r].status >= 400
         /\ UNCHANGED <<employee, teacher, officer, staff>>

\* C27: no two Employee records ever share an email or a phone; a
\* createEmployee or an updateEmployee that brings the email or the phone of
\* another employee fails and leaves every Employee record and every role
\* extension as it was.
C27_UniqueContact == [][C27_Step]_vars

\* C27 happens: with both employees stored, an update that gives the second
\* the email of the first has failed, and the second has kept its own
C27_Witness ==
  \E r \in Reqs :
    /\ req[r].op = "updateEmployee"
    /\ req[r].pc = "done"
    /\ req[r].status = 500
    /\ req[r].eid = "e2"
    /\ req[r].body.email = Some(EmailOf("e1"))
    /\ \E e \in employee : e.id = "e1" /\ e.email = EmailOf("e1")
    /\ \E e \in employee : e.id = "e2" /\ e.email = EmailOf("e2")
    /\ ExtensionOf(staff, "e2") # {}

\* C28: the counts of an answered payroll summary, and of the dashboard's
\* current month, add up: total = paid + pending, whatever requests run
\* while the three counts are taken.
C28_CountsAddUp ==
  \A r \in Reqs :
    (/\ req[r].op \in {"getPayrollSummary", "getDashboardStats"}
     /\ req[r].pc = "done"
     /\ req[r].status = 200) =>
      req[r].counts.total = req[r].counts.paid + req[r].counts.pending

\* every Payroll record is the record of a stored employee
Referenced(table, emps) ==
  \A p \in table : \E e \in emps : e.id = p.employeeId

\* request r runs the create of processPayroll in this step, for an
\* employee that has been deleted since the request fetched it
CreatesForDeleted(r) ==
  /\ req[r].op = "processPayroll"
  /\ req[r].pc = "create"
  /\ req'[r] # req[r]
  /\ \A e \in employee : e.id # Val(req[r].cur).id

C29_Step ==
  /\ Referenced(payroll', employee')
  /\ \A r \in Reqs :
       CreatesForDeleted(r) =>
         /\ payroll' = payroll
         /\ \E x \in req'[r].errors : x.employeeId = Val(req[r].cur).id
         /\ req'[r].processed = req[r].processed

\* C29: every Payroll record refers to a stored employee at every moment;
\* when an employee is deleted between the fetch of processPayroll and its
\* create, the create stores nothing and the employee is reported among the
\* errors.
C29_ReferentialIntegrity == [][C29_Step]_vars

\* C29 happens: a processPayroll that fetched two employees has answered
\* after one of them was deleted; the deleted one is among its errors with
\* the message of the foreign key and has no record, the other has its
\* record
C29_Witness ==
  \E r \in Reqs :
    /\ req[r].op = "processPayroll"
    /\ req[r].pc = "done"
    /\ Cardinality(req[r].employees) = 2
    /\ \E x \in req[r].errors :
         /\ x.message = ErrForeignKey
         /\ \A e \in employee : e.id # x.employeeId
         /\ \A p \in payroll : p.employeeId # x.employeeId
    /\ \E p \in req[r].processed : p \in payroll

\* the sum of field f over the first n monthly entries
RECURSIVE EntriesUpTo(_, _, _)
EntriesUpTo(entries, f, n) ==
  IF n = 0 THEN 0 ELSE EntriesUpTo(entries, f, n - 1) + entries[n][f]

YearlyFields == {"totalBasicSalary", "totalGrossSalary", "totalNetSalary"}

StoredField(f) ==
  CASE f = "totalBasicSalary" -> "basicSalary"
    [] f = "totalGrossSalary" -> "grossSalary"
    [] f = "totalNetSalary" -> "netSalary"

YearlyAnswered(r) ==
  /\ req[r].op = "getYearlyComparison"
  /\ req[r].pc = "done"
  /\ req[r].status = 200

\* C30: in an answered yearly comparison each of the three yearly totals is
\* the sum of the 12 monthly entries and is the sum of the field over every
\* stored Payroll record of the requested year.
C30_YearlyTotal ==
  \A r \in Reqs :
    YearlyAnswered(r) =>
      /\ Len(req[r].rows) = 12
      /\ \A f \in YearlyFields :
           /\ req[r].yearlyTotal[f] = EntriesUpTo(req[r].rows, f, 12)
           /\ req[r].yearlyTotal[f] =
                Total({p \in payroll : p.year = parseInt(req[r].year).n}, StoredField(f))

====
